---- MODULE Spec2Model ----
(***************************************************************************)
(* certdepot: a depot of PKI artifacts (certificate, private key, CSR,     *)
(* CRL) addressed by (name, kind) tags, with a MongoDB backend and a file  *)
(* backend, and the certificate lifecycle (CertificateOptions) on top.     *)
(***************************************************************************)
EXTENDS Integers, Sequences, FiniteSets, TLC

VARIABLES
    depot,   \* the depot: backend, the MongoDB collection, the directory
    pre,     \* the depot as it was when the last operation was called
    last,    \* the last operation: its name, arguments and results
    puts,    \* the tags a Put call has succeeded for so far
    nops,    \* number of operations called so far
    opts,    \* the CertificateOptions value the caller holds
    now,     \* the clock (time.Now)
    calls    \* the Init calls running concurrently: position and locals of each

vars == <<depot, pre, last, puts, nops, opts, now, calls>>

\* ------------------------------------------------------------------ bounds

\* Number of depot operations in one run of the depot specification.
MaxOps == 2

\* Number of lifecycle calls in one run of the lifecycle specification.
MaxCalls == 2

\* Number of calls made on the depot that already holds certificates.
MaxExpiryCalls == 1

\* The last instant of the clock.
MaxTime == 1

\* Calls on one CertificateOptions value in a behaviour of the cache.
MaxCacheCalls == 3

\* ------------------------------------------------------------------- names

\* A name is a sequence of one-character strings.
EmptyName == <<>>

\* The characters the regular expression [^a-zA-Z0-9._-] does not replace,
\* among the characters the names of this model are made of.
AcceptableChars == {"a", "b", "c", "h", "r", "0", "1", ".", "_", "-"}

\* strings.Replace(name, " ", "_", -1)
formatDepotName(name) ==
    [i \in 1..Len(name) |-> IF name[i] = " " THEN "_" ELSE name[i]]

\* filenameAcceptable.ReplaceAll(name, "_")
getFormattedCertificateRequestName(name) ==
    [i \in 1..Len(name) |-> IF name[i] \in AcceptableChars THEN name[i] ELSE "_"]

\* The names callers use for identities: two that differ only by a space
\* against an underscore, and one with a character outside the acceptable set.
NameSet == { <<"a", " ">>, <<"a", "_">>, <<"a", "@">> }

\* -------------------------------------------------------------------- tags

Suffixes == {".crt", ".key", ".csr", ".crl"}

CrtTag(name)     == [name |-> name, suffix |-> ".crt"]
PrivKeyTag(name) == [name |-> name, suffix |-> ".key"]
CsrTag(name)     == [name |-> name, suffix |-> ".csr"]
CrlTag(name)     == [name |-> name, suffix |-> ".crl"]

TagSet == [name : NameSet, suffix : Suffixes]

\* depot.GetNameFrom...Tag: the tag's name without the suffix, "" when the
\* tag does not end in the suffix.
GetNameFromTag(tag, suffix) == IF tag.suffix = suffix THEN tag.name ELSE EmptyName

\* --------------------------------------------------------------- user keys

userIDKey            == "id"
userCertKey          == "cert"
userPrivateKeyKey    == "key"
userCertReqKey       == "cert_req"
userCertRevocListKey == "cert_revoc_list"
userTTLKey           == "ttl"

NoKey == ""

\* -------------------------------------------------------------------- data

\* Byte slices. Nil is the nil slice, Raw("") the empty non-nil slice.
Nil      == [t |-> "nil"]
Raw(s)   == [t |-> "raw", s |-> s]
Empty    == Raw("")
Absent   == [t |-> "absent"]     \* a field a document does not have

len0(data) == data = Nil \/ data = Empty

DataSet == {Nil, Empty, Raw("x"), Raw("y")}

\* Errors are strings; "" is the nil error.
NoErr == ""

\* --------------------------------------------------------- getNameAndKey

getNameAndKey(tag) ==
    IF GetNameFromTag(tag, ".crt") # EmptyName
    THEN [name |-> formatDepotName(GetNameFromTag(tag, ".crt")), key |-> userCertKey, err |-> NoErr]
    ELSE IF GetNameFromTag(tag, ".key") # EmptyName
    THEN [name |-> formatDepotName(GetNameFromTag(tag, ".key")), key |-> userPrivateKeyKey, err |-> NoErr]
    ELSE IF GetNameFromTag(tag, ".csr") # EmptyName
    THEN [name |-> getFormattedCertificateRequestName(GetNameFromTag(tag, ".csr")),
          key |-> userCertReqKey, err |-> NoErr]
    ELSE IF GetNameFromTag(tag, ".crl") # EmptyName
    THEN [name |-> formatDepotName(GetNameFromTag(tag, ".crl")), key |-> userCertRevocListKey, err |-> NoErr]
    ELSE [name |-> EmptyName, key |-> NoKey, err |-> NoErr]

\* ------------------------------------------------------ MongoDB collection

\* A document of the collection: the User struct's fields by their bson
\* keys. A field the document does not have is Absent; the ttl is a set
\* holding the expiration time, empty when the document has none.
NewDoc(id) ==
    [id |-> id, cert |-> Absent, key |-> Absent, cert_req |-> Absent,
     cert_revoc_list |-> Absent, ttl |-> {}]

HasDoc(docs, id) == \E d \in docs : d.id = id

\* FindOne(filter id).Decode(u): the first matching document decoded into a
\* zero User; a field the document lacks stays the empty string.
DecodeField(v) == IF v = Absent THEN Empty ELSE v

ZeroUser == [ID |-> EmptyName, Cert |-> Empty, PrivateKey |-> Empty, CertReq |-> Empty,
             CertRevocList |-> Empty, TTL |-> {}]

Decode(d) ==
    [ID |-> d.id, Cert |-> DecodeField(d.cert), PrivateKey |-> DecodeField(d.key),
     CertReq |-> DecodeField(d.cert_req), CertRevocList |-> DecodeField(d.cert_revoc_list),
     TTL |-> d.ttl]

FindOne(docs, id) ==
    IF HasDoc(docs, id)
    THEN [u |-> Decode(CHOOSE d \in docs : d.id = id), err |-> NoErr]
    ELSE [u |-> ZeroUser, err |-> "ErrNoDocuments"]

\* UpdateOne(filter id, {$set: {key: value}}), with or without upsert.
UpdateOneSet(docs, id, key, value, upsert) ==
    IF HasDoc(docs, id)
    THEN LET d == CHOOSE x \in docs : x.id = id
             n == [d EXCEPT ![key] = value]
         IN [docs |-> (docs \ {d}) \cup {n}, matched |-> 1,
             modified |-> IF n = d THEN 0 ELSE 1]
    ELSE IF upsert
    THEN [docs |-> docs \cup {[NewDoc(id) EXCEPT ![key] = value]}, matched |-> 0, modified |-> 0]
    ELSE [docs |-> docs, matched |-> 0, modified |-> 0]

\* UpdateOne(filter id, {$unset: {key: ""}}), no upsert.
UpdateOneUnset(docs, id, key) ==
    IF HasDoc(docs, id)
    THEN LET d == CHOOSE x \in docs : x.id = id
             n == [d EXCEPT ![key] = Absent]
         IN [docs |-> (docs \ {d}) \cup {n}, matched |-> 1,
             modified |-> IF n = d THEN 0 ELSE 1]
    ELSE [docs |-> docs, matched |-> 0, modified |-> 0]

errNotNoDocuments(err) == err # NoErr /\ err # "ErrNoDocuments"

\* The field of the decoded User the key selects (the switch of Check,
\* CheckWithError and Get); no field for any other key.
UserField(u, key) ==
    IF key = userCertKey THEN u.Cert
    ELSE IF key = userPrivateKeyKey THEN u.PrivateKey
    ELSE IF key = userCertReqKey THEN u.CertReq
    ELSE IF key = userCertRevocListKey THEN u.CertRevocList
    ELSE Empty

\* ------------------------------------------------------------- mongoDepot
\* Every method takes `io`: whether the database call it makes fails.

\* Put writing the certificate field whatever the tag's kind.
mongoPut_IgnoresKind(docs, tag, data, io) ==
    IF data = Nil THEN [docs |-> docs, err |-> "data is nil"]
    ELSE IF io THEN [docs |-> docs, err |-> "adding data to the database"]
    ELSE [docs |-> UpdateOneSet(docs, getNameAndKey(tag).name, userCertKey, data, TRUE).docs,
          err |-> NoErr]

\* Put replacing the whole document instead of setting one field.
mongoPut_ReplacesDocument(docs, tag, data, io) ==
    IF data = Nil THEN [docs |-> docs, err |-> "data is nil"]
    ELSE IF io THEN [docs |-> docs, err |-> "adding data to the database"]
    ELSE LET nk == getNameAndKey(tag)
         IN [docs |-> {d \in docs : d.id # nk.name} \cup {[NewDoc(nk.name) EXCEPT ![nk.key] = data]},
             err |-> NoErr]

\* For a tag without a name getNameAndKey gives the key "": the server
\* refuses an update whose field path is empty, and UpdateOne returns its
\* error.
mongoPut(docs, tag, data, io) ==
    IF data = Nil THEN [docs |-> docs, err |-> "data is nil"]
    ELSE LET nk == getNameAndKey(tag) IN
         IF nk.err # NoErr THEN [docs |-> docs, err |-> "formatting name"]
         ELSE IF io \/ nk.key = NoKey
         THEN [docs |-> docs, err |-> "adding data to the database"]
         ELSE [docs |-> UpdateOneSet(docs, nk.name, nk.key, data, TRUE).docs, err |-> NoErr]

mongoCheck(docs, tag, io) ==
    LET nk == getNameAndKey(tag) IN
    IF nk.err # NoErr THEN FALSE
    ELSE LET u == IF io THEN ZeroUser ELSE FindOne(docs, nk.name).u
         IN UserField(u, nk.key) # Empty

\* CheckWithError answering like Check when the lookup fails.
mongoCheckWithError_SwallowsError(docs, tag, io) ==
    LET nk == getNameAndKey(tag) IN
    IF nk.err # NoErr THEN [ok |-> FALSE, err |-> "getting name and key"]
    ELSE LET u == IF io THEN ZeroUser ELSE FindOne(docs, nk.name).u
         IN [ok |-> UserField(u, nk.key) # Empty, err |-> NoErr]

mongoCheckWithError(docs, tag, io) ==
    LET nk == getNameAndKey(tag) IN
    IF nk.err # NoErr THEN [ok |-> FALSE, err |-> "getting name and key"]
    ELSE LET r == IF io THEN [u |-> ZeroUser, err |-> "io"] ELSE FindOne(docs, nk.name)
         IN IF errNotNoDocuments(r.err) THEN [ok |-> FALSE, err |-> "checking depot tag"]
            ELSE [ok |-> UserField(r.u, nk.key) # Empty, err |-> NoErr]

\* Get without the check for empty data.
mongoGet_ReturnsEmpty(docs, tag, io) ==
    LET nk == getNameAndKey(tag)
        r == IF io THEN [u |-> ZeroUser, err |-> "io"] ELSE FindOne(docs, nk.name)
    IN IF r.err # NoErr THEN [data |-> Nil, err |-> "name not found"]
       ELSE [data |-> UserField(r.u, nk.key), err |-> NoErr]

mongoGet(docs, tag, io) ==
    LET nk == getNameAndKey(tag) IN
    IF nk.err # NoErr THEN [data |-> Nil, err |-> "formatting name"]
    ELSE LET r == IF io THEN [u |-> ZeroUser, err |-> "io"] ELSE FindOne(docs, nk.name)
         IN IF r.err = "ErrNoDocuments" THEN [data |-> Nil, err |-> "name not found"]
            ELSE IF r.err # NoErr THEN [data |-> Nil, err |-> "looking up name in the database"]
            ELSE LET data == UserField(r.u, nk.key)
                 IN IF len0(data) THEN [data |-> Nil, err |-> "no data available"]
                    ELSE [data |-> data, err |-> NoErr]

\* Delete removing the document instead of unsetting one field.
mongoDelete_RemovesDocument(docs, tag, io) ==
    IF io THEN [docs |-> docs, err |-> "deleting from the database"]
    ELSE [docs |-> {d \in docs : d.id # getNameAndKey(tag).name}, err |-> NoErr]

\* Delete updating with upsert, as Put does.
mongoDelete_Upserts(docs, tag, io) ==
    IF io THEN [docs |-> docs, err |-> "deleting from the database"]
    ELSE [docs |-> UpdateOneSet(docs, getNameAndKey(tag).name, getNameAndKey(tag).key,
                                Absent, TRUE).docs,
          err |-> NoErr]

mongoDelete(docs, tag, io) ==
    LET nk == getNameAndKey(tag) IN
    IF nk.err # NoErr THEN [docs |-> docs, err |-> "formatting name"]
    ELSE IF io THEN [docs |-> docs, err |-> "deleting from the database"]
    ELSE [docs |-> UpdateOneUnset(docs, nk.name, nk.key).docs, err |-> NoErr]

\* -------------------------------------------------------------- file depot
\* The directory is a set of files, one per (name, suffix), named by the
\* tag as the caller gave it.

HasFile(files, tag) == \E f \in files : f.name = tag.name /\ f.suffix = tag.suffix

FileOf(files, tag) == CHOOSE f \in files : f.name = tag.name /\ f.suffix = tag.suffix

\* Put truncating the file that exists.
filePut_Overwrites(files, tag, data, io) ==
    IF len0(data) THEN [files |-> files, err |-> "data is nil"]
    ELSE [files |-> {f \in files : ~(f.name = tag.name /\ f.suffix = tag.suffix)}
                    \cup {[name |-> tag.name, suffix |-> tag.suffix, data |-> data]},
          err |-> NoErr]

filePut(files, tag, data, io) ==
    IF len0(data) THEN [files |-> files, err |-> "data is nil"]
    ELSE IF HasFile(files, tag) THEN [files |-> files, err |-> "file exists"]
    ELSE IF io THEN [files |-> files, err |-> "write"]
    ELSE [files |-> files \cup {[name |-> tag.name, suffix |-> tag.suffix, data |-> data]},
          err |-> NoErr]

fileCheck(files, tag, io) == ~io /\ HasFile(files, tag)

fileCheckWithError(files, tag, io) ==
    IF io THEN [ok |-> FALSE, err |-> "stat"]
    ELSE [ok |-> HasFile(files, tag), err |-> NoErr]

fileGet(files, tag, io) ==
    IF ~HasFile(files, tag) THEN [data |-> Nil, err |-> "file does not exist"]
    ELSE IF io THEN [data |-> Nil, err |-> "read"]
    ELSE [data |-> FileOf(files, tag).data, err |-> NoErr]

fileDelete(files, tag, io) ==
    IF ~HasFile(files, tag) THEN [files |-> files, err |-> "file does not exist"]
    ELSE IF io THEN [files |-> files, err |-> "remove"]
    ELSE [files |-> files \ {FileOf(files, tag)}, err |-> NoErr]

\* ------------------------------------------------------ the Depot interface
\* A depot value is [backend, docs, files]; a call goes to the backend's method.

Backends == {"mongo", "file"}

NewDepot(b) == [backend |-> b, docs |-> {}, files |-> {}]

Put(d, tag, data, io) ==
    IF d.backend = "mongo"
    THEN LET r == mongoPut(d.docs, tag, data, io) IN [d |-> [d EXCEPT !.docs = r.docs], err |-> r.err]
    ELSE LET r == filePut(d.files, tag, data, io) IN [d |-> [d EXCEPT !.files = r.files], err |-> r.err]

Check(d, tag, io) ==
    IF d.backend = "mongo" THEN mongoCheck(d.docs, tag, io) ELSE fileCheck(d.files, tag, io)

CheckWithError(d, tag, io) ==
    IF d.backend = "mongo" THEN mongoCheckWithError(d.docs, tag, io)
    ELSE fileCheckWithError(d.files, tag, io)

Get(d, tag, io) ==
    IF d.backend = "mongo" THEN mongoGet(d.docs, tag, io) ELSE fileGet(d.files, tag, io)

Delete(d, tag, io) ==
    IF d.backend = "mongo"
    THEN LET r == mongoDelete(d.docs, tag, io) IN [d |-> [d EXCEPT !.docs = r.docs], err |-> r.err]
    ELSE LET r == fileDelete(d.files, tag, io) IN [d |-> [d EXCEPT !.files = r.files], err |-> r.err]

\* ---------------------------------------------------------- PKI artifacts
\* What pkix makes, by the properties the lifecycle reads: a key is told
\* apart by a serial number; a certificate has its subject, its issuer, the
\* subject's and the signer's key, NotAfter and IsCA. The PEM form of an
\* artifact wraps it with its type.

None == [t |-> "none"]

CreateRSAKey(serial) == [id |-> serial]

CreateCertificateAuthority(key, expiresTime, cn) ==
    [cn |-> cn, issuer |-> cn, pub |-> key.id, signedBy |-> key.id,
     NotAfter |-> expiresTime, IsCA |-> TRUE]

CreateCertificateSigningRequest(key, name) == [cn |-> name, pub |-> key.id]

CreateCertificateHost(crtAuth, keyAuth, csr, expiresTime) ==
    [cn |-> csr.cn, issuer |-> crtAuth.cn, pub |-> csr.pub, signedBy |-> keyAuth.id,
     NotAfter |-> expiresTime, IsCA |-> FALSE]

CreateIntermediateCertificateAuthority(crtAuth, keyAuth, csr, expiresTime) ==
    [cn |-> csr.cn, issuer |-> crtAuth.cn, pub |-> csr.pub, signedBy |-> keyAuth.id,
     NotAfter |-> expiresTime, IsCA |-> TRUE]

CreateCertificateRevocationList(key, crt, expiresTime) ==
    [issuer |-> crt.cn, signedBy |-> key.id, NextUpdate |-> expiresTime]

ExportCertificate(crt)           == [t |-> "crt", c |-> crt]
ExportPrivate(key)               == [t |-> "key", k |-> key, pass |-> ""]
ExportEncryptedPrivate(key, pass) == [t |-> "key", k |-> key, pass |-> pass]
ExportCertificateSigningRequest(csr) == [t |-> "csr", r |-> csr]
ExportCertificateRevocationList(crl) == [t |-> "crl", l |-> crl]

\* ------------------------------------------- the depot package's helpers

PutCertificate(d, name, crt, io) == Put(d, CrtTag(name), ExportCertificate(crt), io)

PutPrivateKey(d, name, key, io) == Put(d, PrivKeyTag(name), ExportPrivate(key), io)

PutEncryptedPrivateKey(d, name, key, pass, io) ==
    Put(d, PrivKeyTag(name), ExportEncryptedPrivate(key, pass), io)

PutCertificateSigningRequest(d, name, csr, io) ==
    Put(d, CsrTag(name), ExportCertificateSigningRequest(csr), io)

PutCertificateRevocationList(d, name, crl, io) ==
    Put(d, CrlTag(name), ExportCertificateRevocationList(crl), io)

GetCertificate(d, name, io) ==
    LET r == Get(d, CrtTag(name), io) IN
    IF r.err # NoErr THEN [crt |-> None, err |-> r.err]
    ELSE IF r.data.t # "crt" THEN [crt |-> None, err |-> "not a certificate"]
    ELSE [crt |-> r.data.c, err |-> NoErr]

GetCertificateSigningRequest(d, name, io) ==
    LET r == Get(d, CsrTag(name), io) IN
    IF r.err # NoErr THEN [csr |-> None, err |-> r.err]
    ELSE IF r.data.t # "csr" THEN [csr |-> None, err |-> "not a certificate request"]
    ELSE [csr |-> r.data.r, err |-> NoErr]

GetPrivateKey(d, name, io) ==
    LET r == Get(d, PrivKeyTag(name), io) IN
    IF r.err # NoErr THEN [key |-> None, err |-> r.err]
    ELSE IF r.data.t # "key" THEN [key |-> None, err |-> "not a key"]
    ELSE IF r.data.pass # "" THEN [key |-> None, err |-> "key is encrypted"]
    ELSE [key |-> r.data.k, err |-> NoErr]

GetEncryptedPrivateKey(d, name, pass, io) ==
    LET r == Get(d, PrivKeyTag(name), io) IN
    IF r.err # NoErr THEN [key |-> None, err |-> r.err]
    ELSE IF r.data.t # "key" THEN [key |-> None, err |-> "not a key"]
    ELSE IF r.data.pass # pass THEN [key |-> None, err |-> "cannot decrypt key"]
    ELSE [key |-> r.data.k, err |-> NoErr]

CheckCertificateWithError(d, name, io) == CheckWithError(d, CrtTag(name), io)

CheckPrivateKeyWithError(d, name, io) == CheckWithError(d, PrivKeyTag(name), io)

CheckCertificateSigningRequestWithError(d, name, io) == CheckWithError(d, CsrTag(name), io)

\* ------------------------------------------------------------------ PutTTL

\* PutTTL making the record when there is none.
mongoPutTTL_Upserts(docs, name, expiration, io) ==
    IF io THEN [docs |-> docs, err |-> "problem updating TTL in the database"]
    ELSE [docs |-> UpdateOneSet(docs, formatDepotName(name), userTTLKey, {expiration}, TRUE).docs,
          err |-> NoErr]

\* PutTTL content with an update that modifies nothing.
mongoPutTTL_IgnoresUnmodified(docs, name, expiration, io) ==
    IF io THEN [docs |-> docs, err |-> "problem updating TTL in the database"]
    ELSE [docs |-> UpdateOneSet(docs, formatDepotName(name), userTTLKey, {expiration}, FALSE).docs,
          err |-> NoErr]

mongoPutTTL(docs, name, expiration, io) ==
    LET formattedName == formatDepotName(name) IN
    IF io THEN [docs |-> docs, err |-> "problem updating TTL in the database"]
    ELSE LET updateRes == UpdateOneSet(docs, formattedName, userTTLKey, {expiration}, FALSE)
         IN IF updateRes.modified = 0
            THEN [docs |-> updateRes.docs, err |-> "update did not change TTL"]
            ELSE [docs |-> updateRes.docs, err |-> NoErr]

\* The TTL left unset on every backend.
PutTTLIfMongo_Skips(d, name, expiration, io) == [d |-> d, err |-> NoErr]

\* if md, ok := wd.(*mongoDepot); ok { md.PutTTL(...) }
PutTTLIfMongo(d, name, expiration, io) ==
    IF d.backend = "mongo"
    THEN LET r == mongoPutTTL(d.docs, name, expiration, io)
         IN [d |-> [d EXCEPT !.docs = r.docs], err |-> r.err]
    ELSE [d |-> d, err |-> NoErr]

\* ---------------------------------------------------- expiration queries

\* bson.M{userTTLKey: bson.M{"$lte": cutoff}}: the documents that have a ttl
\* and whose ttl is at most the cutoff; a document without the field does
\* not match a comparison.
expiresBeforeQuery(d, cutoff) == d.ttl # {} /\ \A e \in d.ttl : e <= cutoff

\* FindExpiresBefore comparing with "before" instead of "$lte".
mongoFindExpiresBefore_Strict(docs, cutoff, io) ==
    IF io THEN [users |-> {}, err |-> "problem finding expired users"]
    ELSE [users |-> { Decode(d) : d \in { x \in docs : x.ttl # {} /\ \A e \in x.ttl : e < cutoff } },
          err |-> NoErr]

\* The result is the set of the decoded documents: the order is the
\* driver's.
mongoFindExpiresBefore(docs, cutoff, io) ==
    IF io THEN [users |-> {}, err |-> "problem finding expired users"]
    ELSE [users |-> { Decode(d) : d \in { x \in docs : expiresBeforeQuery(x, cutoff) } },
          err |-> NoErr]

\* DeleteExpiresBefore removing the certificate and the ttl of the matching
\* documents, not the documents.
mongoDeleteExpiresBefore_KeepsRecord(docs, cutoff, io) ==
    IF io THEN [docs |-> docs, err |-> "problem removing expired users"]
    ELSE [docs |-> { IF expiresBeforeQuery(d, cutoff)
                     THEN [d EXCEPT !.cert = Absent, !.ttl = {}] ELSE d : d \in docs },
          err |-> NoErr]

mongoDeleteExpiresBefore(docs, cutoff, io) ==
    IF io THEN [docs |-> docs, err |-> "problem removing expired users"]
    ELSE [docs |-> { d \in docs : ~expiresBeforeQuery(d, cutoff) }, err |-> NoErr]

\* ------------------------------------------------------ CertificateOptions

ZeroOptions ==
    [CommonName |-> EmptyName, Domain |-> <<>>, IP |-> <<>>, URI |-> <<>>,
     Host |-> EmptyName, CA |-> EmptyName, Expires |-> 0,
     Passphrase |-> "", CAPassphrase |-> "", Intermediate |-> FALSE,
     csr |-> None, key |-> None, crt |-> None]

certRequestedInMemory(o) == o.csr # None /\ o.key # None

signedInMemory(o) == o.crt # None

\* Reset leaving the certificate cached.
Reset_KeepsCertificate(o) == [o EXCEPT !.csr = None, !.key = None]

Reset(o) == [o EXCEPT !.csr = None, !.key = None, !.crt = None]

getCertificateRequestName(o) ==
    IF o.CommonName # EmptyName THEN [name |-> o.CommonName, err |-> NoErr]
    ELSE IF Len(o.Domain) # 0 THEN [name |-> o.Domain[1], err |-> NoErr]
    ELSE [name |-> EmptyName, err |-> "must provide a common name or domain"]

optsFormattedCertificateRequestName(o) ==
    LET n == getCertificateRequestName(o) IN
    IF n.err # NoErr THEN [name |-> EmptyName, err |-> n.err]
    ELSE [name |-> getFormattedCertificateRequestName(n.name), err |-> NoErr]

\* pkix.ParseAndValidateIPs / ParseAndValidateURIs of the joined list.
ValidIPs  == {"0.0.0.0"}
ValidURIs == {"evergreen.mongodb.com"}

ParseAndValidate(list, valid) == \A i \in 1..Len(list) : list[i] \in valid

\* A handler's result: the depot and the options it leaves, and its error.
Ret(d, o, err) == [d |-> d, o |-> o, err |-> err]

\* Statements run one after another: a step [x \in {v} |-> rest] computes
\* the value of its statement v once and the rest of the handler goes on
\* from it.
Run(step) == step[CHOOSE x \in DOMAIN step : TRUE]

\* Every handler takes `f`: which of its storage calls fails, counted from 1
\* in the order of the code; 0 when none does.

\* Init with the check of the private key left out.
Init_ChecksCertOnly(d, o, t, serial, f) ==
    IF o.CommonName = EmptyName THEN Ret(d, o, "must provide common name of CA")
    ELSE
    LET formattedName == formatDepotName(o.CommonName)
        c1 == CheckCertificateWithError(d, formattedName, f = 1)
        key == CreateRSAKey(serial)
        crt == CreateCertificateAuthority(key, t + o.Expires, o.CommonName)
    IN IF c1.err # NoErr THEN Ret(d, o, c1.err)
       ELSE IF c1.ok THEN Ret(d, o, "CA with specified name already exists")
       ELSE Run([p1 \in {PutCertificate(d, formattedName, crt, f = 3)} |->
            IF p1.err # NoErr THEN Ret(p1.d, o, "saving certificate authority")
            ELSE Run([p2 \in {PutPrivateKey(p1.d, formattedName, key, f = 4)} |->
                 Ret(p2.d, o, p2.err)])])

Init(d, o, t, serial, f) ==
    IF o.CommonName = EmptyName THEN Ret(d, o, "must provide common name of CA")
    ELSE
    LET formattedName == formatDepotName(o.CommonName)
        c1 == CheckCertificateWithError(d, formattedName, f = 1)
        c2 == CheckPrivateKeyWithError(d, formattedName, f = 2)
        key == CreateRSAKey(serial)
        expiresTime == t + o.Expires
        crt == CreateCertificateAuthority(key, expiresTime, o.CommonName)
        crl == CreateCertificateRevocationList(key, crt, expiresTime)
    IN IF c1.err # NoErr THEN Ret(d, o, c1.err)
       ELSE IF c2.err # NoErr THEN Ret(d, o, c2.err)
       ELSE IF c1.ok \/ c2.ok THEN Ret(d, o, "CA with specified name already exists")
       ELSE
       Run([p1 \in {PutCertificate(d, formattedName, crt, f = 3)} |->
       IF p1.err # NoErr THEN Ret(p1.d, o, "saving certificate authority")
       ELSE
       Run([p2 \in {IF o.Passphrase # ""
            THEN PutEncryptedPrivateKey(p1.d, formattedName, key, o.Passphrase, f = 4)
            ELSE PutPrivateKey(p1.d, formattedName, key, f = 4)} |->
       IF p2.err # NoErr THEN Ret(p2.d, o, "saving private key")
       ELSE
       Run([p3 \in {PutCertificateRevocationList(p2.d, formattedName, crl, f = 5)} |->
       IF p3.err # NoErr THEN Ret(p3.d, o, "saving certificate revocation list")
       ELSE
       Run([p4 \in {PutTTLIfMongo(p3.d, formattedName, crt.NotAfter, f = 6)} |->
       IF p4.err # NoErr THEN Ret(p4.d, o, "setting certificate TTL")
       ELSE Ret(p4.d, o, NoErr)])])])])

\* CertRequestInMemory making a new request whatever is cached.
CertRequestInMemory_Recomputes(o, serial) ==
    IF ~ParseAndValidate(o.IP, ValidIPs) THEN Ret(None, o, "parsing and validating IPs")
    ELSE IF ~ParseAndValidate(o.URI, ValidURIs) THEN Ret(None, o, "parsing and validating URIs")
    ELSE LET n == getCertificateRequestName(o)
             key == CreateRSAKey(serial)
             csr == CreateCertificateSigningRequest(key, n.name)
         IN IF n.err # NoErr THEN Ret(None, o, n.err)
            ELSE Ret(None, [o EXCEPT !.csr = csr, !.key = key], NoErr)

\* CertRequestInMemory dropping a cached certificate when it makes a request.
CertRequestInMemory_DropsCertificate(o, serial) ==
    IF certRequestedInMemory(o) THEN Ret(None, o, NoErr)
    ELSE IF ~ParseAndValidate(o.IP, ValidIPs) THEN Ret(None, o, "parsing and validating IPs")
    ELSE IF ~ParseAndValidate(o.URI, ValidURIs) THEN Ret(None, o, "parsing and validating URIs")
    ELSE LET n == getCertificateRequestName(o)
             key == CreateRSAKey(serial)
             csr == CreateCertificateSigningRequest(key, n.name)
         IN IF n.err # NoErr THEN Ret(None, o, n.err)
            ELSE Ret(None, [o EXCEPT !.csr = csr, !.key = key, !.crt = None], NoErr)

CertRequestInMemory(o, serial) ==
    IF certRequestedInMemory(o) THEN Ret(None, o, NoErr)
    ELSE IF ~ParseAndValidate(o.IP, ValidIPs) THEN Ret(None, o, "parsing and validating IPs")
    ELSE IF ~ParseAndValidate(o.URI, ValidURIs) THEN Ret(None, o, "parsing and validating URIs")
    ELSE LET n == getCertificateRequestName(o)
             key == CreateRSAKey(serial)
             csr == CreateCertificateSigningRequest(key, n.name)
         IN IF n.err # NoErr THEN Ret(None, o, n.err)
            ELSE Ret(None, [o EXCEPT !.csr = csr, !.key = key], NoErr)

\* PutCertRequestFromMemory looking for an existing request only.
PutCertRequestFromMemory_ChecksRequestOnly(d, o, f) ==
    IF ~certRequestedInMemory(o)
    THEN Ret(d, o, "must make cert request first before putting into depot")
    ELSE
    LET n == optsFormattedCertificateRequestName(o)
        c1 == CheckCertificateSigningRequestWithError(d, n.name, f = 1)
    IN IF n.err # NoErr THEN Ret(d, o, "getting formatted name")
       ELSE IF c1.err # NoErr THEN Ret(d, o, c1.err)
       ELSE IF c1.ok THEN Ret(d, o, "certificate request or private key already exists")
       ELSE
       Run([p1 \in {PutCertificateSigningRequest(d, n.name, o.csr, f = 3)} |->
       IF p1.err # NoErr THEN Ret(p1.d, o, "saving certificate request")
       ELSE
       Run([p2 \in {PutPrivateKey(p1.d, n.name, o.key, f = 4)} |->
       IF p2.err # NoErr THEN Ret(p2.d, o, "saving private key")
       ELSE Ret(p2.d, o, NoErr)])])

PutCertRequestFromMemory(d, o, f) ==
    IF ~certRequestedInMemory(o)
    THEN Ret(d, o, "must make cert request first before putting into depot")
    ELSE
    LET n == optsFormattedCertificateRequestName(o)
        formattedName == n.name
        c1 == CheckCertificateSigningRequestWithError(d, formattedName, f = 1)
        c2 == CheckPrivateKeyWithError(d, formattedName, f = 2)
    IN IF n.err # NoErr THEN Ret(d, o, "getting formatted name")
       ELSE IF c1.err # NoErr THEN Ret(d, o, c1.err)
       ELSE IF c2.err # NoErr THEN Ret(d, o, c2.err)
       ELSE IF c1.ok \/ c2.ok
       THEN Ret(d, o, "certificate request or private key already exists")
       ELSE
       Run([p1 \in {PutCertificateSigningRequest(d, formattedName, o.csr, f = 3)} |->
       IF p1.err # NoErr THEN Ret(p1.d, o, "saving certificate request")
       ELSE
       Run([p2 \in {IF o.Passphrase # ""
            THEN PutEncryptedPrivateKey(p1.d, formattedName, o.key, o.Passphrase, f = 4)
            ELSE PutPrivateKey(p1.d, formattedName, o.key, f = 4)} |->
       IF p2.err # NoErr THEN Ret(p2.d, o, "saving private key")
       ELSE Ret(p2.d, o, NoErr)])])

CertRequest(d, o, serial, f) ==
    Run([r \in {CertRequestInMemory(o, serial)} |->
    IF r.err # NoErr THEN Ret(d, r.o, r.err)
    ELSE PutCertRequestFromMemory(d, r.o, f)])

\* SignInMemory without the check that a host is named.
SignInMemory_AnyHost(d, o, t, f) ==
    IF signedInMemory(o) THEN Ret(d, o, NoErr)
    ELSE IF o.CA = EmptyName THEN Ret(d, o, "must provide name of CA")
    ELSE
    LET g1 == IF certRequestedInMemory(o) THEN [csr |-> o.csr, err |-> NoErr]
              ELSE GetCertificateSigningRequest(d, formatDepotName(o.Host), f = 1)
        g2 == GetCertificate(d, formatDepotName(o.CA), f = 2)
        g3 == GetPrivateKey(d, formatDepotName(o.CA), f = 3)
    IN IF g1.err # NoErr THEN Ret(d, o, "getting host's certificate signing request")
       ELSE IF g2.err # NoErr THEN Ret(d, o, "getting CA certificate")
       ELSE IF ~g2.crt.IsCA THEN Ret(d, o, "not allowed to sign certificates")
       ELSE IF g3.err # NoErr THEN Ret(d, o, "getting CA key")
       ELSE Ret(d, [o EXCEPT !.crt = CreateCertificateHost(g2.crt, g3.key, g1.csr, t + o.Expires)],
                NoErr)

\* SignInMemory without the check that the signer is a CA.
SignInMemory_AnySigner(d, o, t, f) ==
    IF signedInMemory(o) THEN Ret(d, o, NoErr)
    ELSE IF o.Host = EmptyName THEN Ret(d, o, "must provide name of host")
    ELSE IF o.CA = EmptyName THEN Ret(d, o, "must provide name of CA")
    ELSE
    LET g1 == IF certRequestedInMemory(o) THEN [csr |-> o.csr, err |-> NoErr]
              ELSE GetCertificateSigningRequest(d, formatDepotName(o.Host), f = 1)
        g2 == GetCertificate(d, formatDepotName(o.CA), f = 2)
        g3 == GetPrivateKey(d, formatDepotName(o.CA), f = 3)
    IN IF g1.err # NoErr THEN Ret(d, o, "getting host's certificate signing request")
       ELSE IF g2.err # NoErr THEN Ret(d, o, "getting CA certificate")
       ELSE IF g3.err # NoErr THEN Ret(d, o, "getting CA key")
       ELSE Ret(d, [o EXCEPT !.crt = CreateCertificateHost(g2.crt, g3.key, g1.csr, t + o.Expires)],
                NoErr)

\* SignInMemory validating Host and CA before it looks at the cache.
SignInMemory_ValidatesFirst(d, o, t, f) ==
    IF o.Host = EmptyName THEN Ret(d, o, "must provide name of host")
    ELSE IF o.CA = EmptyName THEN Ret(d, o, "must provide name of CA")
    ELSE IF signedInMemory(o) THEN Ret(d, o, NoErr)
    ELSE
    LET formattedReqName == formatDepotName(o.Host)
        formattedCAName == formatDepotName(o.CA)
        g1 == IF certRequestedInMemory(o) THEN [csr |-> o.csr, err |-> NoErr]
              ELSE GetCertificateSigningRequest(d, formattedReqName, f = 1)
        g2 == GetCertificate(d, formattedCAName, f = 2)
        g3 == IF o.CAPassphrase = ""
              THEN GetPrivateKey(d, formattedCAName, f = 3)
              ELSE GetEncryptedPrivateKey(d, formattedCAName, o.CAPassphrase, f = 3)
        expiresTime == t + o.Expires
        crtOut == IF o.Intermediate
                  THEN CreateIntermediateCertificateAuthority(g2.crt, g3.key, g1.csr, expiresTime)
                  ELSE CreateCertificateHost(g2.crt, g3.key, g1.csr, expiresTime)
    IN IF g1.err # NoErr THEN Ret(d, o, "getting host's certificate signing request")
       ELSE IF g2.err # NoErr THEN Ret(d, o, "getting CA certificate")
       ELSE IF ~g2.crt.IsCA THEN Ret(d, o, "not allowed to sign certificates")
       ELSE IF g3.err # NoErr THEN Ret(d, o, "getting CA key")
       ELSE Ret(d, [o EXCEPT !.crt = crtOut], NoErr)

SignInMemory(d, o, t, f) ==
    IF signedInMemory(o) THEN Ret(d, o, NoErr)
    ELSE IF o.Host = EmptyName THEN Ret(d, o, "must provide name of host")
    ELSE IF o.CA = EmptyName THEN Ret(d, o, "must provide name of CA")
    ELSE
    LET formattedReqName == formatDepotName(o.Host)
        formattedCAName == formatDepotName(o.CA)
        g1 == IF certRequestedInMemory(o) THEN [csr |-> o.csr, err |-> NoErr]
              ELSE GetCertificateSigningRequest(d, formattedReqName, f = 1)
        g2 == GetCertificate(d, formattedCAName, f = 2)
        g3 == IF o.CAPassphrase = ""
              THEN GetPrivateKey(d, formattedCAName, f = 3)
              ELSE GetEncryptedPrivateKey(d, formattedCAName, o.CAPassphrase, f = 3)
        expiresTime == t + o.Expires
        crtOut == IF o.Intermediate
                  THEN CreateIntermediateCertificateAuthority(g2.crt, g3.key, g1.csr, expiresTime)
                  ELSE CreateCertificateHost(g2.crt, g3.key, g1.csr, expiresTime)
    IN IF g1.err # NoErr THEN Ret(d, o, "getting host's certificate signing request")
       ELSE IF g2.err # NoErr THEN Ret(d, o, "getting CA certificate")
       ELSE IF ~g2.crt.IsCA THEN Ret(d, o, "not allowed to sign certificates")
       ELSE IF g3.err # NoErr THEN Ret(d, o, "getting CA key")
       ELSE Ret(d, [o EXCEPT !.crt = crtOut], NoErr)

\* PutCertFromMemory without the check for an existing certificate.
PutCertFromMemory_Overwrites(d, o, f) ==
    IF ~signedInMemory(o) THEN Ret(d, o, "must sign cert first before putting into depot")
    ELSE
    Run([p1 \in {PutCertificate(d, formatDepotName(o.Host), o.crt, f = 2)} |->
    IF p1.err # NoErr THEN Ret(p1.d, o, "saving certificate")
    ELSE
    Run([p2 \in {PutTTLIfMongo(p1.d, formatDepotName(o.Host), o.crt.NotAfter, f = 3)} |->
    IF p2.err # NoErr THEN Ret(p2.d, o, "saving certificate TTL")
    ELSE Ret(p2.d, o, NoErr)])])

PutCertFromMemory(d, o, f) ==
    IF ~signedInMemory(o) THEN Ret(d, o, "must sign cert first before putting into depot")
    ELSE
    LET formattedReqName == formatDepotName(o.Host)
        c1 == CheckCertificateWithError(d, formattedReqName, f = 1)
    IN IF c1.err # NoErr THEN Ret(d, o, c1.err)
       ELSE IF c1.ok THEN Ret(d, o, "certificate already exists")
       ELSE
       Run([p1 \in {PutCertificate(d, formattedReqName, o.crt, f = 2)} |->
       IF p1.err # NoErr THEN Ret(p1.d, o, "saving certificate")
       ELSE
       Run([p2 \in {PutTTLIfMongo(p1.d, formattedReqName, o.crt.NotAfter, f = 3)} |->
       IF p2.err # NoErr THEN Ret(p2.d, o, "saving certificate TTL")
       ELSE Ret(p2.d, o, NoErr)])])

\* The storage calls of SignInMemory are 1..3, those of PutCertFromMemory
\* follow them.
Sign(d, o, t, f) ==
    Run([r \in {SignInMemory(d, o, t, f)} |->
    IF r.err # NoErr THEN r
    ELSE PutCertFromMemory(d, r.o, f - 3)])

\* The storage calls of CertRequest are 1..4, those of Sign follow them.
CreateCertificate(d, o, t, serial, f) ==
    Run([r \in {CertRequest(d, o, serial, f)} |->
    IF r.err # NoErr THEN r
    ELSE Sign(r.d, r.o, t, f - 4)])

\* ------------------------------------------------------------- expiration

getRawCertificate(d, name, io) == GetCertificate(d, name, io)

DeleteCertificate(d, name, io) == Delete(d, CrtTag(name), io)

DeleteCertificateSigningRequest(d, name, io) == Delete(d, CsrTag(name), io)

\* What DeleteOnExpiration returns, with the depot as it leaves it.
Del(d, deleted, err) == [d |-> d, deleted |-> deleted, err |-> err]

\* The storage calls of DeleteOnExpiration are 1..5.
DeleteOnExpiration(d, name, after, t, f) ==
    LET c1 == CheckCertificateWithError(d, name, f = 1)
        g1 == getRawCertificate(d, name, f = 2)
    IN IF c1.err # NoErr THEN Del(d, FALSE, c1.err)
       ELSE IF ~c1.ok THEN Del(d, FALSE, NoErr)
       ELSE IF g1.err # NoErr THEN Del(d, FALSE, "getting raw certificate")
       ELSE IF g1.crt.NotAfter < t + after
       THEN
       Run([p1 \in {DeleteCertificate(d, name, f = 3)} |->
       IF p1.err # NoErr THEN Del(p1.d, FALSE, "deleting expiring certificate")
       ELSE
       Run([p2 \in {IF ~g1.crt.IsCA
                    THEN DeleteCertificateSigningRequest(p1.d, name, f = 4)
                    ELSE [d |-> p1.d, err |-> NoErr]} |->
       IF p2.err # NoErr
       THEN Del(p2.d, FALSE, "deleting expiring certificate signing request")
       ELSE
       Run([p3 \in {Delete(p2.d, PrivKeyTag(name), f = 5)} |->
       IF p3.err # NoErr THEN Del(p3.d, FALSE, "deleting expiring certificate key")
       ELSE Del(p3.d, TRUE, NoErr)])])])
       ELSE Del(d, FALSE, NoErr)

\* What CreateCertificateOnExpiration returns, with the depot and the options
\* as it leaves them.
Cre(d, o, created, err) == [d |-> d, o |-> o, created |-> created, err |-> err]

\* The storage call of the check is 1, those of DeleteOnExpiration are 2..6,
\* those of CreateCertificate follow them.
CreateCertificateOnExpiration(d, o, after, t, serial, f) ==
    LET c1 == CheckCertificateWithError(d, o.CommonName, f = 1) IN
    IF c1.err # NoErr THEN Cre(d, o, FALSE, c1.err)
    ELSE
    Run([x \in {IF c1.ok
                THEN DeleteOnExpiration(d, o.CommonName, after, t, f - 1)
                ELSE Del(d, TRUE, NoErr)} |->
    IF x.err # NoErr THEN Cre(x.d, o, FALSE, "deleting expiring certificate")
    ELSE IF x.deleted
    THEN Run([r \in {CreateCertificate(x.d, o, t, serial, f - 6)} |->
         Cre(r.d, r.o, TRUE, r.err)])
    ELSE Cre(x.d, o, FALSE, NoErr)])

\* ------------------------------------------------- Save, Find, Generate

\* The DepotOptions a depot is made with.
DepotOptions == [CA |-> <<"r">>, DefaultExpiration |-> 1]

NoCreds == [t |-> "nil"]

NewCredentials(caCert, cert, key) ==
    [CACert |-> caCert, Cert |-> cert, Key |-> key, ServerName |-> EmptyName]

\* What Find and Generate return, with the depot as they leave it.
Got(d, creds, err) == [d |-> d, creds |-> creds, err |-> err]

\* Each tag takes two storage calls, Check and Delete; an error of a Delete
\* is collected and the remaining tags are still handled.
RECURSIVE deleteIfExists(_, _, _)
deleteIfExists(d, tags, f) ==
    IF tags = <<>> THEN [d |-> d, err |-> NoErr]
    ELSE
    Run([x \in {IF Check(d, Head(tags), f = 1)
                THEN Delete(d, Head(tags), f = 2)
                ELSE [d |-> d, err |-> NoErr]} |->
    Run([rest \in {deleteIfExists(x.d, Tail(tags), f - 2)} |->
    [d |-> rest.d, err |-> IF x.err # NoErr THEN x.err ELSE rest.err]])])

putTTL(d, name, expiration, io) == PutTTLIfMongo(d, name, expiration, io)

\* Save writing the key and the certificate over what is stored, without
\* deleting first.
depotSave_KeepsRequest(d, name, creds, f) ==
    Run([p1 \in {Put(d, PrivKeyTag(name), creds.Key, f = 7)} |->
    IF p1.err # NoErr THEN [d |-> p1.d, err |-> "saving key"]
    ELSE
    Run([p2 \in {Put(p1.d, CrtTag(name), creds.Cert, f = 8)} |->
    IF p2.err # NoErr THEN [d |-> p2.d, err |-> "saving certificate"]
    ELSE IF creds.Cert.t # "crt"
    THEN [d |-> p2.d, err |-> "getting certificate from PEM bytes"]
    ELSE putTTL(p2.d, name, creds.Cert.c.NotAfter, f = 9)])])

\* The storage calls of deleteIfExists are 1..6, then Put, Put, putTTL.
depotSave(d, name, creds, f) ==
    Run([x \in {deleteIfExists(d, <<CsrTag(name), PrivKeyTag(name), CrtTag(name)>>, f)} |->
    IF x.err # NoErr THEN [d |-> x.d, err |-> "deleting existing credentials"]
    ELSE
    Run([p1 \in {Put(x.d, PrivKeyTag(name), creds.Key, f = 7)} |->
    IF p1.err # NoErr THEN [d |-> p1.d, err |-> "saving key"]
    ELSE
    Run([p2 \in {Put(p1.d, CrtTag(name), creds.Cert, f = 8)} |->
    IF p2.err # NoErr THEN [d |-> p2.d, err |-> "saving certificate"]
    ELSE IF creds.Cert.t # "crt"
    THEN [d |-> p2.d, err |-> "getting certificate from PEM bytes"]
    ELSE
    Run([p3 \in {putTTL(p2.d, name, creds.Cert.c.NotAfter, f = 9)} |->
    IF p3.err # NoErr THEN [d |-> p3.d, err |-> "putting expiration on credentials"]
    ELSE [d |-> p3.d, err |-> NoErr]])])])])

\* Find reading the certificate where it should read the key.
depotFind_KeyFromCert(d, name, do, f) ==
    LET caCrt == Get(d, CrtTag(do.CA), f = 1)
        crt == Get(d, CrtTag(name), f = 2)
    IN IF caCrt.err # NoErr THEN Got(d, NoCreds, "getting CA certificate")
       ELSE IF crt.err # NoErr THEN Got(d, NoCreds, "getting certificate")
       ELSE Got(d, [NewCredentials(caCrt.data, crt.data, crt.data) EXCEPT !.ServerName = name],
                NoErr)

depotFind(d, name, do, f) ==
    LET caCrt == Get(d, CrtTag(do.CA), f = 1)
        crt == Get(d, CrtTag(name), f = 2)
        key == Get(d, PrivKeyTag(name), f = 3)
    IN IF caCrt.err # NoErr THEN Got(d, NoCreds, "getting CA certificate")
       ELSE IF crt.err # NoErr THEN Got(d, NoCreds, "getting certificate")
       ELSE IF key.err # NoErr THEN Got(d, NoCreds, "getting key")
       ELSE Got(d, [NewCredentials(caCrt.data, crt.data, key.data) EXCEPT !.ServerName = name],
                NoErr)

\* Generate going through CreateCertificate, which stores what it makes.
depotGenerate_Stores(d, name, do, opts_, t, serial, f) ==
    LET o1 == [opts_ EXCEPT !.CA = IF opts_.CA = EmptyName THEN do.CA ELSE opts_.CA,
                            !.Expires = IF opts_.Expires = 0 THEN do.DefaultExpiration
                                        ELSE opts_.Expires]
    IN Run([r \in {CreateCertificate(d, o1, t, serial, 0)} |->
       IF r.err # NoErr THEN Got(r.d, NoCreds, r.err)
       ELSE Got(r.d, [NewCredentials(Get(d, CrtTag(do.CA), FALSE).data,
                                     ExportCertificate(r.o.crt), ExportPrivate(r.o.key))
                      EXCEPT !.ServerName = name], NoErr)])

\* The storage call of the CA certificate is 1, those of SignInMemory follow.
\* The options are a copy: what the handler caches is not seen by the caller.
depotGenerate(d, name, do, opts_, t, serial, f) ==
    LET o1 == [opts_ EXCEPT !.CA = IF opts_.CA = EmptyName THEN do.CA ELSE opts_.CA,
                            !.Expires = IF opts_.Expires = 0 THEN do.DefaultExpiration
                                        ELSE opts_.Expires]
    IN Run([r1 \in {CertRequestInMemory(o1, serial)} |->
       IF r1.err # NoErr THEN Got(d, NoCreds, "making certificate request and key")
       ELSE
       LET pemCACrt == Get(d, CrtTag(do.CA), f = 1) IN
       IF pemCACrt.err # NoErr THEN Got(d, NoCreds, "getting CA certificate")
       ELSE
       Run([r2 \in {SignInMemory(d, r1.o, t, f - 1)} |->
       IF r2.err # NoErr THEN Got(r2.d, NoCreds, "signing certificate request")
       ELSE Got(r2.d,
                [NewCredentials(pemCACrt.data, ExportCertificate(r2.o.crt),
                                ExportPrivate(r1.o.key))
                 EXCEPT !.ServerName = name],
                NoErr)])])

depotGenerateDefault(d, name, do, t, serial, f) ==
    depotGenerate(d, name, do, [ZeroOptions EXCEPT !.CommonName = name, !.Host = name],
                  t, serial, f)

Save(d, name, creds, f) == depotSave(d, name, creds, f)

Find(d, name, f) == depotFind(d, name, DepotOptions, f)

Generate(d, name, t, serial, f) == depotGenerateDefault(d, name, DepotOptions, t, serial, f)

GenerateWithOptions(d, o, t, serial, f) ==
    depotGenerate(d, o.CommonName, DepotOptions, o, t, serial, f)

\* ------------------------------------------- the depot, operation by operation

\* What `last` holds: the operation, its tag and data arguments, whether the
\* storage call failed, and the results (error, returned bytes, returned bool).
Called(op, tag, arg, io, err, data, ok) ==
    [op |-> op, tag |-> tag, arg |-> arg, io |-> io, err |-> err, data |-> data, ok |-> ok]

NoTag == [name |-> EmptyName, suffix |-> ""]

\* The depots a run starts from: a new depot (the tests' setup); a depot
\* holding the certificate, key and CRL of one identity, put there by Put; on
\* MongoDB, a collection holding a User inserted with its ID alone, whose
\* string fields are "" (the tests' alice).
deleteName == <<"a", "_">>
otherName  == <<"a", "@">>

RECURSIVE PutAll(_, _)
PutAll(d, puts_) ==
    IF puts_ = <<>> THEN d
    ELSE PutAll(Put(d, Head(puts_)[1], Head(puts_)[2], FALSE).d, Tail(puts_))

PopulatedPuts ==
    << <<CrtTag(otherName), Raw("y")>>, <<PrivKeyTag(otherName), Raw("y")>>,
       <<CrlTag(otherName), Raw("y")>> >>

BareUser(id) ==
    [id |-> id, cert |-> Empty, key |-> Empty, cert_req |-> Empty,
     cert_revoc_list |-> Empty, ttl |-> {}]

InitDepot ==
    /\ \/ /\ depot \in {NewDepot(b) : b \in Backends}
          /\ puts = {}
       \/ /\ depot \in {PutAll(NewDepot(b), PopulatedPuts) : b \in Backends}
          /\ puts = {PopulatedPuts[i][1] : i \in 1..Len(PopulatedPuts)}
       \/ /\ depot = [NewDepot("mongo") EXCEPT !.docs = {BareUser(deleteName)}]
          /\ puts = {}
    /\ pre = depot
    /\ last = Called("new", NoTag, Nil, FALSE, NoErr, Nil, FALSE)
    /\ nops = 0
    /\ opts = ZeroOptions
    /\ now = 0
    /\ calls = <<>>

DoPut ==
    /\ nops < MaxOps
    /\ \E tag \in TagSet, data \in DataSet :
          LET r == Put(depot, tag, data, FALSE) IN
          /\ depot' = r.d
          /\ pre' = depot
          /\ last' = Called("Put", tag, data, FALSE, r.err, Nil, FALSE)
          /\ puts' = IF r.err = NoErr THEN puts \cup {tag} ELSE puts
          /\ nops' = nops + 1
          /\ UNCHANGED <<calls, opts, now>>

DoCheck ==
    /\ nops < MaxOps
    /\ \E tag \in TagSet :
          /\ last' = Called("Check", tag, Nil, FALSE, NoErr, Nil, Check(depot, tag, FALSE))
          /\ pre' = depot
          /\ nops' = nops + 1
          /\ UNCHANGED <<calls, depot, puts, opts, now>>

DoCheckWithError ==
    /\ nops < MaxOps
    /\ \E tag \in TagSet :
          LET r == CheckWithError(depot, tag, FALSE) IN
          /\ last' = Called("CheckWithError", tag, Nil, FALSE, r.err, Nil, r.ok)
          /\ pre' = depot
          /\ nops' = nops + 1
          /\ UNCHANGED <<calls, depot, puts, opts, now>>

DoGet ==
    /\ nops < MaxOps
    /\ \E tag \in TagSet :
          LET r == Get(depot, tag, FALSE) IN
          /\ last' = Called("Get", tag, Nil, FALSE, r.err, r.data, FALSE)
          /\ pre' = depot
          /\ nops' = nops + 1
          /\ UNCHANGED <<calls, depot, puts, opts, now>>

DoDelete ==
    /\ nops < MaxOps
    /\ \E tag \in TagSet :
          LET r == Delete(depot, tag, FALSE) IN
          /\ depot' = r.d
          /\ pre' = depot
          /\ last' = Called("Delete", tag, Nil, FALSE, r.err, Nil, FALSE)
          /\ nops' = nops + 1
          /\ UNCHANGED <<calls, puts, opts, now>>

NextDepot == DoPut \/ DoCheck \/ DoCheckWithError \/ DoGet \/ DoDelete

SpecDepot == InitDepot /\ [][NextDepot]_vars

\* ------------------------------------------- the lifecycle, call by call
\* A caller holds one CertificateOptions value, sets its fields, and calls
\* Init and CreateCertificate on a depot; any one storage call of a handler
\* may fail. The clock advances between calls.

CANames == { <<"r">>, <<"a", " ">> }

CAOptions(cn) == [ZeroOptions EXCEPT !.CommonName = cn, !.Expires = 1]

HostOptions(cn, host, ca) ==
    [ZeroOptions EXCEPT !.CommonName = cn, !.Host = host, !.CA = ca, !.Expires = 1]

OptionSet ==
      {ZeroOptions}
    \cup { CAOptions(cn) : cn \in CANames }
    \cup { HostOptions(n, n, <<"r">>) : n \in NameSet }
    \cup { HostOptions(<<"r">>, EmptyName, <<"r">>) }

Ran(op, o, t, f, err) == [op |-> op, opts |-> o, t |-> t, f |-> f, err |-> err]

InitLifecycle ==
    /\ \E b \in Backends : depot = NewDepot(b)
    /\ pre = depot
    /\ last = Ran("new", ZeroOptions, 0, 0, NoErr)
    /\ puts = {}
    /\ nops = 0
    /\ opts = ZeroOptions
    /\ now = 0
    /\ calls = <<>>

\* The caller fills in a CertificateOptions value.
SetOptions ==
    /\ nops < MaxCalls
    /\ \E o \in OptionSet :
          /\ opts' = o
          /\ UNCHANGED <<calls, depot, pre, last, puts, nops, now>>

\* Init makes six storage calls at most.
DoInit ==
    /\ nops < MaxCalls
    /\ \E f \in 0..6 :
          \E r \in {Init(depot, opts, now, nops + 1, f)} :
          /\ depot' = r.d
          /\ opts' = r.o
          /\ pre' = depot
          /\ last' = Ran("Init", opts, now, f, r.err)
          /\ nops' = nops + 1
          /\ UNCHANGED <<calls, puts, now>>

\* CreateCertificate makes ten storage calls at most.
DoCreateCertificate ==
    /\ nops < MaxCalls
    /\ \E f \in 0..10 :
          \E r \in {CreateCertificate(depot, opts, now, nops + 1, f)} :
          /\ depot' = r.d
          /\ opts' = r.o
          /\ pre' = depot
          /\ last' = Ran("CreateCertificate", opts, now, f, r.err)
          /\ nops' = nops + 1
          /\ UNCHANGED <<calls, puts, now>>

Tick ==
    /\ now < MaxTime
    /\ nops < MaxCalls
    /\ now' = now + 1
    /\ UNCHANGED <<calls, depot, pre, last, puts, nops, opts>>

Next == SetOptions \/ DoInit \/ DoCreateCertificate \/ Tick

Spec == InitLifecycle /\ [][Next]_vars

\* ------------------------------------------- expiration, call by call
\* A depot that holds a CA and a host certificate, and the caller that made
\* them: the caller signs in memory, deletes on expiration and creates on
\* expiration, with fresh options or with the ones it used before.

rootName == <<"r">>

\* The depot after Init of the CA at time 0, `f` as in Init.
CADepot(b, f) == Init(NewDepot(b), CAOptions(rootName), 0, 1, f).d

\* The depot and the options after CreateCertificate of host n at time 0.
HostCreated(b, n) ==
    CreateCertificate(CADepot(b, 0), HostOptions(n, n, rootName), 0, 2, 0)

ExpiryOptionSet ==
    OptionSet
    \cup { HostOptions(<<"a", "_">>, <<"a", "_">>, <<"a", "_">>),
           HostOptions(<<"a", "_">>, <<"a", "_">>, EmptyName) }

Afters == {0, 2}

\* One call: `failed` tells whether a storage call of it failed, `out` is the
\* options value as the call leaves it.
Did(op, o, t, failed, name, after, err, flag, out) ==
    [op |-> op, opts |-> o, t |-> t, failed |-> failed, name |-> name, after |-> after,
     err |-> err, flag |-> flag, out |-> out]

InitExpiry ==
    /\ \E b \in Backends :
         \/ /\ depot \in {CADepot(b, 0), CADepot(b, 4)}
            /\ opts = ZeroOptions
         \/ \E n \in NameSet :
              /\ depot = HostCreated(b, n).d
              /\ opts = HostCreated(b, n).o
    /\ pre = depot
    /\ last = Did("new", ZeroOptions, 0, FALSE, EmptyName, 0, NoErr, FALSE, ZeroOptions)
    /\ puts = {}
    /\ nops = 0
    /\ now = 0
    /\ calls = <<>>

\* The caller builds a new CertificateOptions value.
NewOptions ==
    /\ nops < MaxExpiryCalls
    /\ \E o \in ExpiryOptionSet :
          /\ opts' = o
          /\ UNCHANGED <<calls, depot, pre, last, puts, nops, now>>

\* The caller assigns the exported fields of the value it holds; what the
\* value has cached stays.
EditOptions ==
    /\ nops < MaxExpiryCalls
    /\ \E o \in ExpiryOptionSet :
          /\ opts' = [o EXCEPT !.csr = opts.csr, !.key = opts.key, !.crt = opts.crt]
          /\ UNCHANGED <<calls, depot, pre, last, puts, nops, now>>

DoSignInMemory ==
    /\ nops < MaxExpiryCalls
    /\ \E f \in 0..3 :
          \E r \in {SignInMemory(depot, opts, now, f)} :
          /\ depot' = r.d
          /\ opts' = r.o
          /\ pre' = depot
          /\ last' = Did("SignInMemory", opts, now, f # 0 /\ r # SignInMemory(depot, opts, now, 0),
                         EmptyName, 0, r.err, FALSE, r.o)
          /\ nops' = nops + 1
          /\ UNCHANGED <<calls, puts, now>>

DoDeleteOnExpiration ==
    /\ nops < MaxExpiryCalls
    /\ \E name \in NameSet \cup {rootName}, after \in Afters, f \in 0..5 :
          \E r \in {DeleteOnExpiration(depot, name, after, now, f)} :
          /\ depot' = r.d
          /\ pre' = depot
          /\ last' = Did("DeleteOnExpiration", opts, now,
                         f # 0 /\ r # DeleteOnExpiration(depot, name, after, now, 0),
                         name, after, r.err, r.deleted, opts)
          /\ nops' = nops + 1
          /\ UNCHANGED <<calls, opts, puts, now>>

\* CreateCertificateOnExpiration makes sixteen storage calls at most; the
\* keys of the depot it starts from are 1 and 2.
DoCreateCertificateOnExpiration ==
    /\ nops < MaxExpiryCalls
    /\ \E after \in Afters, f \in 0..16 :
          \E r \in {CreateCertificateOnExpiration(depot, opts, after, now, nops + 3, f)} :
          /\ depot' = r.d
          /\ opts' = r.o
          /\ pre' = depot
          /\ last' = Did("CreateCertificateOnExpiration", opts, now,
                         f # 0 /\ r # CreateCertificateOnExpiration(depot, opts, after, now, nops + 3, 0),
                         opts.CommonName, after, r.err, r.created, r.o)
          /\ nops' = nops + 1
          /\ UNCHANGED <<calls, puts, now>>

NextExpiry ==
    \/ NewOptions
    \/ EditOptions
    \/ DoSignInMemory
    \/ DoDeleteOnExpiration
    \/ DoCreateCertificateOnExpiration
    \/ Tick

SpecExpiry == InitExpiry /\ [][NextExpiry]_vars

\* ----------------------------------- Save, Find, Generate, call by call
\* A depot, empty or holding a CA and a host certificate, and a caller of
\* Save, Find, Generate, GenerateWithOptions and PutTTL.

\* Credentials a caller saves: a certificate for the name issued by the CA,
\* with a key or with empty key bytes, and one whose certificate is no PEM.
SavedCrt(n, expires) ==
    CreateCertificateHost(CreateCertificateAuthority(CreateRSAKey(1), 1, rootName),
                          CreateRSAKey(1),
                          CreateCertificateSigningRequest(CreateRSAKey(9), n),
                          expires)

CredsSet(n) ==
    { [NewCredentials(Nil, ExportCertificate(SavedCrt(n, e)), k) EXCEPT !.ServerName = n] :
        e \in 1..(MaxTime + 1), k \in {ExportPrivate(CreateRSAKey(9)), Empty} }
    \cup { NewCredentials(Nil, Raw("x"), Raw("y")) }

Sup(op, name, o, arg, t, failed, err, out) ==
    [op |-> op, name |-> name, opts |-> o, arg |-> arg, t |-> t, failed |-> failed,
     err |-> err, out |-> out]

InitSuperset ==
    /\ \E b \in Backends :
         \/ /\ depot \in {NewDepot(b), CADepot(b, 0)}
            /\ opts = ZeroOptions
         \/ \E n \in NameSet :
              /\ depot = HostCreated(b, n).d
              /\ opts = HostCreated(b, n).o
    /\ pre = depot
    /\ last = Sup("new", EmptyName, ZeroOptions, Nil, 0, FALSE, NoErr, NoCreds)
    /\ puts = {}
    /\ nops = 0
    /\ now = 0
    /\ calls = <<>>

DoSave ==
    /\ nops < MaxExpiryCalls
    /\ \E name \in NameSet : \E creds \in CredsSet(name), f \in 0..9 :
          \E r \in {Save(depot, name, creds, f)} :
          /\ depot' = r.d
          /\ pre' = depot
          /\ last' = Sup("Save", name, opts, creds, now,
                         f # 0 /\ r # Save(depot, name, creds, 0), r.err, NoCreds)
          /\ nops' = nops + 1
          /\ UNCHANGED <<calls, opts, puts, now>>

DoFind ==
    /\ nops < MaxExpiryCalls
    /\ \E name \in NameSet \cup {rootName}, f \in 0..3 :
          \E r \in {Find(depot, name, f)} :
          /\ depot' = r.d
          /\ pre' = depot
          /\ last' = Sup("Find", name, opts, Nil, now,
                         f # 0 /\ r # Find(depot, name, 0), r.err, r.creds)
          /\ nops' = nops + 1
          /\ UNCHANGED <<calls, opts, puts, now>>

DoGenerate ==
    /\ nops < MaxExpiryCalls
    /\ \E name \in NameSet \cup {EmptyName}, f \in 0..4 :
          \E r \in {Generate(depot, name, now, nops + 3, f)} :
          /\ depot' = r.d
          /\ pre' = depot
          /\ last' = Sup("Generate", name, opts, Nil, now,
                         f # 0 /\ r # Generate(depot, name, now, nops + 3, 0), r.err, r.creds)
          /\ nops' = nops + 1
          /\ UNCHANGED <<calls, opts, puts, now>>

DoGenerateWithOptions ==
    /\ nops < MaxExpiryCalls
    /\ \E f \in 0..4 :
          \E r \in {GenerateWithOptions(depot, opts, now, nops + 3, f)} :
          /\ depot' = r.d
          /\ pre' = depot
          /\ last' = Sup("GenerateWithOptions", opts.CommonName, opts, Nil, now,
                         f # 0 /\ r # GenerateWithOptions(depot, opts, now, nops + 3, 0),
                         r.err, r.creds)
          /\ nops' = nops + 1
          /\ UNCHANGED <<calls, opts, puts, now>>

\* PutTTL is a method of the MongoDB depot only.
DoPutTTL ==
    /\ nops < MaxExpiryCalls
    /\ depot.backend = "mongo"
    /\ \E name \in NameSet \cup {rootName}, expiration \in 0..(MaxTime + 1), io \in BOOLEAN :
          \E r \in {mongoPutTTL(depot.docs, name, expiration, io)} :
          /\ depot' = [depot EXCEPT !.docs = r.docs]
          /\ pre' = depot
          /\ last' = Sup("PutTTL", name, opts, expiration, now, io, r.err, NoCreds)
          /\ nops' = nops + 1
          /\ UNCHANGED <<calls, opts, puts, now>>

\* Init makes six storage calls at most; the keys of the depot it starts
\* from are 1 and 2.
DoInitCA ==
    /\ nops < MaxExpiryCalls
    /\ \E f \in 0..6 :
          \E r \in {Init(depot, opts, now, nops + 3, f)} :
          /\ depot' = r.d
          /\ opts' = r.o
          /\ pre' = depot
          /\ last' = Sup("Init", opts.CommonName, opts, Nil, now,
                         f # 0 /\ r # Init(depot, opts, now, nops + 3, 0), r.err, r.o)
          /\ nops' = nops + 1
          /\ UNCHANGED <<calls, puts, now>>

\* PutCertFromMemory makes three storage calls at most.
DoPutCertFromMemory ==
    /\ nops < MaxExpiryCalls
    /\ \E f \in 0..3 :
          \E r \in {PutCertFromMemory(depot, opts, f)} :
          /\ depot' = r.d
          /\ opts' = r.o
          /\ pre' = depot
          /\ last' = Sup("PutCertFromMemory", opts.Host, opts, Nil, now,
                         f # 0 /\ r # PutCertFromMemory(depot, opts, 0), r.err, r.o)
          /\ nops' = nops + 1
          /\ UNCHANGED <<calls, puts, now>>

NextSuperset ==
    \/ NewOptions
    \/ EditOptions
    \/ DoSave
    \/ DoFind
    \/ DoGenerate
    \/ DoGenerateWithOptions
    \/ DoPutTTL
    \/ DoInitCA
    \/ DoPutCertFromMemory
    \/ Tick

SpecSuperset == InitSuperset /\ [][NextSuperset]_vars

\* ------------------------------------- the expiration queries, call by call

\* The records of a collection: of each of three identities none, or one
\* holding a certificate and a key, without a ttl or with the ttl PutTTL set.
RecordIDs == { <<"a", "_">>, <<"a", "@">>, rootName }

TTLChoices == { {} } \cup { {e} : e \in 0..(MaxTime + 1) }

RecordWith(id, ttl) ==
    LET put == mongoPut(mongoPut({}, CrtTag(id), Raw("x"), FALSE).docs,
                        PrivKeyTag(id), Raw("y"), FALSE).docs
    IN IF ttl = {} THEN put
       ELSE mongoPutTTL(put, id, CHOOSE e \in ttl : TRUE, FALSE).docs

InitTTL ==
    /\ \E ids \in SUBSET RecordIDs : \E c \in [RecordIDs -> TTLChoices] :
          depot = [NewDepot("mongo") EXCEPT !.docs = UNION { RecordWith(id, c[id]) : id \in ids }]
    /\ pre = depot
    /\ last = Sup("new", EmptyName, ZeroOptions, Nil, 0, FALSE, NoErr, NoCreds)
    /\ opts = ZeroOptions
    /\ puts = {}
    /\ nops = 0
    /\ now = 0
    /\ calls = <<>>

DoFindExpiresBefore ==
    /\ nops < MaxExpiryCalls
    /\ \E cutoff \in 0..(MaxTime + 1), io \in BOOLEAN :
          \E r \in {mongoFindExpiresBefore(depot.docs, cutoff, io)} :
          /\ pre' = depot
          /\ last' = Sup("FindExpiresBefore", EmptyName, opts, cutoff, now, io, r.err, r.users)
          /\ nops' = nops + 1
          /\ UNCHANGED <<calls, depot, opts, puts, now>>

DoDeleteExpiresBefore ==
    /\ nops < MaxExpiryCalls
    /\ \E cutoff \in 0..(MaxTime + 1), io \in BOOLEAN :
          \E r \in {mongoDeleteExpiresBefore(depot.docs, cutoff, io)} :
          /\ depot' = [depot EXCEPT !.docs = r.docs]
          /\ pre' = depot
          /\ last' = Sup("DeleteExpiresBefore", EmptyName, opts, cutoff, now, io, r.err, NoCreds)
          /\ nops' = nops + 1
          /\ UNCHANGED <<calls, opts, puts, now>>

NextTTL ==
    \/ DoPutTTL
    \/ DoFindExpiresBefore
    \/ DoDeleteExpiresBefore

SpecTTL == InitTTL /\ [][NextTTL]_vars

\* ------------------------------------ the request, in memory and persisted

\* CertRequestInMemory touches the options only; the keys of the depot the
\* run starts from are 1 and 2.
DoCertRequestInMemory ==
    /\ nops < MaxExpiryCalls
    /\ \E r \in {CertRequestInMemory(opts, nops + 3)} :
          /\ opts' = r.o
          /\ UNCHANGED <<calls, depot, pre, last, puts, nops, now>>

\* PutCertRequestFromMemory makes four storage calls at most.
DoPutCertRequestFromMemory ==
    /\ nops < MaxExpiryCalls
    /\ \E f \in 0..4 :
          \E r \in {PutCertRequestFromMemory(depot, opts, f)} :
          /\ depot' = r.d
          /\ opts' = r.o
          /\ pre' = depot
          /\ last' = Sup("PutCertRequestFromMemory", optsFormattedCertificateRequestName(opts).name,
                         opts, Nil, now,
                         f # 0 /\ r # PutCertRequestFromMemory(depot, opts, 0), r.err, r.o)
          /\ nops' = nops + 1
          /\ UNCHANGED <<calls, puts, now>>

\* SignInMemory reads the depot and writes the options only.
DoSignRequestInMemory ==
    /\ nops < MaxExpiryCalls
    /\ \E r \in {SignInMemory(depot, opts, now, 0)} :
          /\ r.err = NoErr
          /\ opts' = r.o
          /\ UNCHANGED <<calls, depot, pre, last, puts, nops, now>>

\* Check of a tag, with the storage lookup working or failing; `arg` is the
\* tag, `failed` tells that the lookup failed, `out` is the answer.
DoCheckLookup ==
    /\ nops < MaxExpiryCalls
    /\ \E tag \in TagSet, io \in BOOLEAN :
          /\ last' = Sup("Check", tag.name, opts, tag, now, io, NoErr, Check(depot, tag, io))
          /\ pre' = depot
          /\ nops' = nops + 1
          /\ UNCHANGED <<calls, depot, puts, opts, now>>

DoCheckWithErrorLookup ==
    /\ nops < MaxExpiryCalls
    /\ \E tag \in TagSet, io \in BOOLEAN :
          \E r \in {CheckWithError(depot, tag, io)} :
          /\ last' = Sup("CheckWithError", tag.name, opts, tag, now, io, r.err, r.ok)
          /\ pre' = depot
          /\ nops' = nops + 1
          /\ UNCHANGED <<calls, depot, puts, opts, now>>

NextPersist ==
    \/ NewOptions
    \/ EditOptions
    \/ DoCertRequestInMemory
    \/ DoSignRequestInMemory
    \/ DoPutCertRequestFromMemory
    \/ DoPutCertFromMemory
    \/ DoInitCA
    \/ DoCheckLookup
    \/ DoCheckWithErrorLookup

SpecPersist == InitSuperset /\ [][NextPersist]_vars

\* ----------------------------------------- Generate on a depot with two CAs

\* A second CA in the depot, next to the default one of DepotOptions.
otherCA == <<"a", " ">>

TwoCADepot(b) == Init(CADepot(b, 0), CAOptions(otherCA), 0, 2, 0).d

\* Options for GenerateWithOptions: those of the other calls, and options that
\* name the second CA.
GenerateOptionSet ==
    ExpiryOptionSet \cup { HostOptions(n, n, otherCA) : n \in NameSet }

InitGenerate ==
    /\ \E b \in Backends : depot \in {CADepot(b, 0), TwoCADepot(b)}
    /\ opts = ZeroOptions
    /\ pre = depot
    /\ last = Sup("new", EmptyName, ZeroOptions, Nil, 0, FALSE, NoErr, NoCreds)
    /\ puts = {}
    /\ nops = 0
    /\ now = 0
    /\ calls = <<>>

\* The caller fills in the options for GenerateWithOptions.
GenerateOptions ==
    /\ nops < MaxExpiryCalls
    /\ \E o \in GenerateOptionSet :
          /\ opts' = o
          /\ UNCHANGED <<calls, depot, pre, last, puts, nops, now>>

NextGenerate ==
    \/ GenerateOptions
    \/ DoGenerate
    \/ DoGenerateWithOptions
    \/ Tick

SpecGenerate == InitGenerate /\ [][NextGenerate]_vars

\* ------------------------------------- the cache of an options value, call by call

\* One call on the options value: the value before the call, the time, the
\* failing storage call, the serial of a key the call makes, the error and the
\* value after the call.
Mem(op, o, t, f, serial, err, out) ==
    [op |-> op, opts |-> o, t |-> t, f |-> f, serial |-> serial, err |-> err, out |-> out]

cacheHost == <<"a", "_">>

CacheOptionSet ==
    { ZeroOptions,
      HostOptions(cacheHost, cacheHost, rootName),
      HostOptions(<<"a", " ">>, <<"a", " ">>, rootName),
      HostOptions(cacheHost, EmptyName, rootName),
      HostOptions(cacheHost, cacheHost, EmptyName),
      [HostOptions(cacheHost, cacheHost, rootName) EXCEPT !.IP = <<"x">>] }

\* The depot after CertRequest for cacheHost: the request and the key are
\* stored, no certificate yet.
RequestStored(b) ==
    CertRequest(CADepot(b, 0), HostOptions(cacheHost, cacheHost, rootName), 2, 0).d

InitCache ==
    /\ \E b \in Backends : depot \in {NewDepot(b), CADepot(b, 0), RequestStored(b)}
    /\ opts = ZeroOptions
    /\ pre = depot
    /\ last = Mem("new", ZeroOptions, 0, 0, 0, NoErr, ZeroOptions)
    /\ puts = {}
    /\ nops = 0
    /\ now = 0
    /\ calls = <<>>

\* The caller assigns the exported fields; what the value has cached stays.
EditCacheOptions ==
    /\ nops < MaxCacheCalls
    /\ \E o \in CacheOptionSet :
          /\ opts' = [o EXCEPT !.csr = opts.csr, !.key = opts.key, !.crt = opts.crt]
          /\ UNCHANGED <<calls, depot, pre, last, puts, nops, now>>

DoReset ==
    /\ nops < MaxCacheCalls
    /\ opts' = Reset(opts)
    /\ pre' = depot
    /\ last' = Mem("Reset", opts, now, 0, nops + 3, NoErr, Reset(opts))
    /\ nops' = nops + 1
    /\ UNCHANGED <<calls, depot, puts, now>>

DoCertRequestInMemoryCall ==
    /\ nops < MaxCacheCalls
    /\ \E r \in {CertRequestInMemory(opts, nops + 3)} :
          /\ opts' = r.o
          /\ pre' = depot
          /\ last' = Mem("CertRequestInMemory", opts, now, 0, nops + 3, r.err, r.o)
    /\ nops' = nops + 1
    /\ UNCHANGED <<calls, depot, puts, now>>

\* SignInMemory makes three storage calls at most.
DoSignInMemoryCall ==
    /\ nops < MaxCacheCalls
    /\ \E f \in 0..3 :
          \E r \in {SignInMemory(depot, opts, now, f)} :
          /\ depot' = r.d
          /\ opts' = r.o
          /\ pre' = depot
          /\ last' = Mem("SignInMemory", opts, now, f, nops + 3, r.err, r.o)
    /\ nops' = nops + 1
    /\ UNCHANGED <<calls, puts, now>>

DoPutCertRequestFromMemoryCall ==
    /\ nops < MaxCacheCalls
    /\ \E r \in {PutCertRequestFromMemory(depot, opts, 0)} :
          /\ depot' = r.d
          /\ opts' = r.o
          /\ pre' = depot
          /\ last' = Mem("PutCertRequestFromMemory", opts, now, 0, nops + 3, r.err, r.o)
    /\ nops' = nops + 1
    /\ UNCHANGED <<calls, puts, now>>

DoPutCertFromMemoryCall ==
    /\ nops < MaxCacheCalls
    /\ \E r \in {PutCertFromMemory(depot, opts, 0)} :
          /\ depot' = r.d
          /\ opts' = r.o
          /\ pre' = depot
          /\ last' = Mem("PutCertFromMemory", opts, now, 0, nops + 3, r.err, r.o)
    /\ nops' = nops + 1
    /\ UNCHANGED <<calls, puts, now>>

NextCache ==
    \/ EditCacheOptions
    \/ DoReset
    \/ DoCertRequestInMemoryCall
    \/ DoSignInMemoryCall
    \/ DoPutCertRequestFromMemoryCall
    \/ DoPutCertFromMemoryCall
    \/ Tick

SpecCache == InitCache /\ [][NextCache]_vars

\* ------------------------------------------- two Init calls, step by step

\* Two callers run Init for the same CA on the MongoDB depot, each with its
\* own options value. A step of a call is one storage call of Init together
\* with the statements that follow it up to the next storage call.
Callers == {1, 2}

InitCall(pc, o, certExists, key, crt, err) ==
    [pc |-> pc, o |-> o, certExists |-> certExists, key |-> key, crt |-> crt, err |-> err]

InitRace ==
    /\ depot = NewDepot("mongo")
    /\ pre = depot
    /\ last = Ran("new", ZeroOptions, 0, 0, NoErr)
    /\ puts = {}
    /\ nops = 0
    /\ opts = ZeroOptions
    /\ now = 0
    /\ calls = [p \in Callers |->
                   InitCall("CheckCertificate", CAOptions(rootName), FALSE, None, None, NoErr)]

Returned(p, err) == [calls EXCEPT ![p].pc = "returned", ![p].err = err]

\* certExists, err := CheckCertificateWithError(wd, formattedName)
InitCheckCertificate(p) ==
    /\ calls[p].pc = "CheckCertificate"
    /\ \E r \in {CheckCertificateWithError(depot, formatDepotName(calls[p].o.CommonName), FALSE)} :
          calls' = IF calls[p].o.CommonName = EmptyName
                   THEN Returned(p, "must provide common name of CA")
                   ELSE IF r.err # NoErr THEN Returned(p, r.err)
                   ELSE [calls EXCEPT ![p].pc = "CheckPrivateKey", ![p].certExists = r.ok]
    /\ UNCHANGED <<depot, pre, last, puts, nops, opts, now>>

\* privKeyExists, err := CheckPrivateKeyWithError(wd, formattedName), the
\* test of the two answers, and the key and the certificate made at the
\* time this step runs; the key of caller p is key p.
InitCheckPrivateKey(p) ==
    /\ calls[p].pc = "CheckPrivateKey"
    /\ \E r \in {CheckPrivateKeyWithError(depot, formatDepotName(calls[p].o.CommonName), FALSE)} :
          calls' = IF r.err # NoErr THEN Returned(p, r.err)
                   ELSE IF calls[p].certExists \/ r.ok
                   THEN Returned(p, "CA with specified name already exists")
                   ELSE [calls EXCEPT
                           ![p].pc = "PutCertificate",
                           ![p].key = CreateRSAKey(p),
                           ![p].crt = CreateCertificateAuthority(CreateRSAKey(p),
                                          now + calls[p].o.Expires, calls[p].o.CommonName)]
    /\ UNCHANGED <<depot, pre, last, puts, nops, opts, now>>

\* depot.PutCertificate(wd, formattedName, crt)
InitPutCertificate(p) ==
    /\ calls[p].pc = "PutCertificate"
    /\ \E r \in {PutCertificate(depot, formatDepotName(calls[p].o.CommonName), calls[p].crt, FALSE)} :
          /\ depot' = r.d
          /\ calls' = IF r.err # NoErr THEN Returned(p, "saving certificate authority")
                      ELSE [calls EXCEPT ![p].pc = "PutPrivateKey"]
    /\ UNCHANGED <<pre, last, puts, nops, opts, now>>

\* depot.PutPrivateKey or depot.PutEncryptedPrivateKey
InitPutPrivateKey(p) ==
    /\ calls[p].pc = "PutPrivateKey"
    /\ \E r \in {IF calls[p].o.Passphrase # ""
                 THEN PutEncryptedPrivateKey(depot, formatDepotName(calls[p].o.CommonName),
                                             calls[p].key, calls[p].o.Passphrase, FALSE)
                 ELSE PutPrivateKey(depot, formatDepotName(calls[p].o.CommonName),
                                    calls[p].key, FALSE)} :
          /\ depot' = r.d
          /\ calls' = IF r.err # NoErr THEN Returned(p, "saving private key")
                      ELSE [calls EXCEPT ![p].pc = "PutCertificateRevocationList"]
    /\ UNCHANGED <<pre, last, puts, nops, opts, now>>

\* pkix.CreateCertificateRevocationList and depot.PutCertificateRevocationList
InitPutCertificateRevocationList(p) ==
    /\ calls[p].pc = "PutCertificateRevocationList"
    /\ \E r \in {PutCertificateRevocationList(depot, formatDepotName(calls[p].o.CommonName),
                     CreateCertificateRevocationList(calls[p].key, calls[p].crt,
                                                     calls[p].crt.NotAfter), FALSE)} :
          /\ depot' = r.d
          /\ calls' = IF r.err # NoErr THEN Returned(p, "saving certificate revocation list")
                      ELSE [calls EXCEPT ![p].pc = "PutTTL"]
    /\ UNCHANGED <<pre, last, puts, nops, opts, now>>

\* md.PutTTL(formattedName, rawCrt.NotAfter) and the return
InitPutTTL(p) ==
    /\ calls[p].pc = "PutTTL"
    /\ \E r \in {PutTTLIfMongo(depot, formatDepotName(calls[p].o.CommonName),
                               calls[p].crt.NotAfter, FALSE)} :
          /\ depot' = r.d
          /\ calls' = IF r.err # NoErr THEN Returned(p, "setting certificate TTL")
                      ELSE Returned(p, NoErr)
    /\ UNCHANGED <<pre, last, puts, nops, opts, now>>

NextRace ==
    \/ \E p \in Callers :
          \/ InitCheckCertificate(p)
          \/ InitCheckPrivateKey(p)
          \/ InitPutCertificate(p)
          \/ InitPutPrivateKey(p)
          \/ InitPutCertificateRevocationList(p)
          \/ InitPutTTL(p)
    \/ Tick

SpecRace == InitRace /\ [][NextRace]_vars

\* ------------------------------------------------ claims: the depot contract

DocOf(docs, id) == CHOOSE d \in docs : d.id = id

IsMongo == depot.backend = "mongo"
IsFile  == depot.backend = "file"

\* Where the backend keeps a tag's data: the document and field on MongoDB,
\* the file in the directory.
Slot(d, tag) ==
    IF d.backend = "mongo"
    THEN <<getNameAndKey(tag).name, getNameAndKey(tag).key>>
    ELSE <<tag.name, tag.suffix>>

GetFails(d, tag) == Get(d, tag, FALSE).err # NoErr /\ Get(d, tag, FALSE).data = Nil

GetReturns(d, tag, data) == Get(d, tag, FALSE) = [data |-> data, err |-> NoErr]

\* What a caller reads at a tag: the bytes Get returns and whether it fails.
Read(d, tag) == [data |-> Get(d, tag, FALSE).data, failed |-> Get(d, tag, FALSE).err # NoErr]

SameReads(d1, d2, tag) ==
    /\ Read(d1, tag) = Read(d2, tag)
    /\ Check(d1, tag, FALSE) = Check(d2, tag, FALSE)

PutStored == last.op = "Put" /\ last.err = NoErr /\ ~len0(last.arg)

\* C1 as stated: for every name N and kind K, before any Put for (N,K) Check
\* is false and Get fails with no data; a successful Put of non-empty data is
\* read back exactly by Get, with Check true; and a Put for any other name or
\* kind leaves what Get and Check answer for (N,K) as it was.
C1_AsStated ==
    \A t \in TagSet :
        /\ t \notin puts => ~Check(depot, t, FALSE) /\ GetFails(depot, t)
        /\ PutStored /\ last.tag = t => GetReturns(depot, t, last.arg) /\ Check(depot, t, FALSE)
        /\ last.op = "Put" /\ last.tag # t => SameReads(depot, pre, t)

\* C1 amended: the same, with identities told apart by the place the backend
\* stores them at (on MongoDB the formatted name getNameAndKey computes).
C1_RoundTrip ==
    \A t \in TagSet :
        /\ (\A p \in puts : Slot(depot, p) # Slot(depot, t))
                => ~Check(depot, t, FALSE) /\ GetFails(depot, t)
        /\ PutStored /\ last.tag = t => GetReturns(depot, t, last.arg) /\ Check(depot, t, FALSE)
        /\ last.op = "Put" /\ Slot(depot, last.tag) # Slot(depot, t) => SameReads(depot, pre, t)

C1_Witness ==
    /\ IsMongo /\ PutStored
    /\ \E t \in puts : /\ Slot(depot, t) # Slot(depot, last.tag)
                       /\ Check(pre, t, FALSE) /\ Check(depot, t, FALSE)
    /\ \E t \in TagSet : t.name = last.tag.name /\ ~Check(depot, t, FALSE)

\* C2 as stated: a Put of nil or empty data returns an error and leaves the
\* depot as it was.
C2_EmptyPutFails ==
    last.op = "Put" /\ len0(last.arg) => last.err # NoErr /\ depot = pre

\* C3 as stated: a Delete of an existing artifact (N,K) makes Check(N,K)
\* false and leaves what Get returns for every other name or kind as it was.
C3_AsStated ==
    last.op = "Delete" /\ Check(pre, last.tag, FALSE) =>
        /\ last.err = NoErr
        /\ ~Check(depot, last.tag, FALSE)
        /\ \A t \in TagSet : t # last.tag => Read(depot, t) = Read(pre, t)

\* C3 amended: the same, with identities told apart by the place the backend
\* stores them at.
C3_DeleteFrame ==
    last.op = "Delete" /\ Check(pre, last.tag, FALSE) =>
        /\ last.err = NoErr
        /\ ~Check(depot, last.tag, FALSE)
        /\ \A t \in TagSet : Slot(depot, t) # Slot(depot, last.tag)
                => Read(depot, t) = Read(pre, t)

C3_Witness ==
    /\ IsMongo /\ last.op = "Delete" /\ Check(pre, last.tag, FALSE)
    /\ \E t \in TagSet : t.name = last.tag.name /\ t.suffix # last.tag.suffix
                         /\ Check(depot, t, FALSE)
    /\ \E t \in TagSet : getNameAndKey(t).name # getNameAndKey(last.tag).name
                         /\ Check(depot, t, FALSE)

\* The artifact of a tag does not exist: no document (no file) for the name,
\* or a document without the field.
ArtifactAbsent(d, tag) ==
    IF d.backend = "mongo"
    THEN \/ ~HasDoc(d.docs, getNameAndKey(tag).name)
         \/ DocOf(d.docs, getNameAndKey(tag).name)[getNameAndKey(tag).key] = Absent
    ELSE ~HasFile(d.files, tag)

\* C4: a Delete of an artifact that does not exist fails on the file backend;
\* on MongoDB it succeeds and changes nothing, and a second Delete of the same
\* tag returns what the first returned and leaves the state the first left.
C4_DeleteAbsent ==
    last.op = "Delete" =>
        /\ IsFile /\ ArtifactAbsent(pre, last.tag) => last.err # NoErr
        /\ IsMongo /\ ArtifactAbsent(pre, last.tag) => last.err = NoErr /\ depot = pre
        /\ IsMongo => Delete(depot, last.tag, FALSE) = [d |-> depot, err |-> last.err]

C4_Witness ==
    /\ IsMongo /\ last.op = "Delete" /\ last.err = NoErr
    /\ ~HasDoc(pre.docs, getNameAndKey(last.tag).name)
    /\ pre.docs # {} /\ depot = pre

\* C5: on the file backend a Put to a tag that has a file fails, for each of
\* the four kinds, and Get returns the bytes it returned before.
C5_FilePutExisting ==
    IsFile /\ last.op = "Put" /\ HasFile(pre.files, last.tag) =>
        /\ last.err # NoErr
        /\ depot = pre
        /\ GetReturns(depot, last.tag, FileOf(pre.files, last.tag).data)

C5_Witness ==
    /\ IsFile /\ last.op = "Put" /\ HasFile(pre.files, last.tag)
    /\ ~len0(last.arg) /\ last.arg # FileOf(pre.files, last.tag).data
    /\ last.err # NoErr

\* C6: on MongoDB a successful Put leaves exactly one document for the name;
\* the field of the kind holds the data; with a document before, its other
\* fields are kept, without one, the other fields are not set; the documents
\* of other names are as they were.
C6_PutUpsertsField ==
    IsMongo /\ last.op = "Put" /\ last.err = NoErr =>
        LET nk  == getNameAndKey(last.tag)
            cur == {d \in depot.docs : d.id = nk.name}
            was == {d \in pre.docs : d.id = nk.name}
        IN /\ Cardinality(cur) = 1
           /\ \A d \in cur :
                /\ d[nk.key] = last.arg
                /\ \A o \in was : d = [o EXCEPT ![nk.key] = last.arg]
                /\ was = {} => d = [NewDoc(nk.name) EXCEPT ![nk.key] = last.arg]
           /\ depot.docs \ cur = pre.docs \ was

C6_Witness ==
    /\ IsMongo /\ last.op = "Put" /\ last.err = NoErr /\ ~len0(last.arg)
    /\ HasDoc(pre.docs, getNameAndKey(last.tag).name)
    /\ LET o == DocOf(pre.docs, getNameAndKey(last.tag).name)
       IN /\ ~len0(DecodeField(o[getNameAndKey(last.tag).key]))
          /\ o[getNameAndKey(last.tag).key] # last.arg
          /\ \E k \in {userCertKey, userPrivateKeyKey, userCertReqKey, userCertRevocListKey} :
                k # getNameAndKey(last.tag).key /\ ~len0(DecodeField(o[k]))

\* C7: on MongoDB, when the document of the name exists and its field for the
\* kind is absent or "", Check is false, CheckWithError is (false, nil) and
\* Get returns nil data and an error.
C7_EmptyFieldIsAbsent ==
    \A t \in TagSet :
        LET nk == getNameAndKey(t) IN
        IsMongo /\ HasDoc(depot.docs, nk.name)
                /\ DocOf(depot.docs, nk.name)[nk.key] \in {Absent, Empty} =>
            /\ ~Check(depot, t, FALSE)
            /\ CheckWithError(depot, t, FALSE) = [ok |-> FALSE, err |-> NoErr]
            /\ GetFails(depot, t)

C7_Witness ==
    /\ IsMongo /\ last.op = "Get" /\ last.err # NoErr /\ last.data = Nil
    /\ HasDoc(depot.docs, getNameAndKey(last.tag).name)
    /\ DocOf(depot.docs, getNameAndKey(last.tag).name)[getNameAndKey(last.tag).key] = Empty
    /\ \E t \in TagSet : getNameAndKey(t).name = getNameAndKey(last.tag).name
                         /\ Check(depot, t, FALSE)

\* ------------------------------------------------- claims: the CA lifecycle

\* The name Init stores the CA under.
ResolvedName(o) == formatDepotName(o.CommonName)

CAExists(d, o) ==
    \/ Check(d, CrtTag(ResolvedName(o)), FALSE)
    \/ Check(d, PrivKeyTag(ResolvedName(o)), FALSE)

C9_InitAtomic ==
    (/\ last.op = "Init"
     /\ last.opts.CommonName # EmptyName
     /\ ~CAExists(pre, last.opts))
    => (Check(depot, CrtTag(ResolvedName(last.opts)), FALSE)
        <=> Check(depot, PrivKeyTag(ResolvedName(last.opts)), FALSE))

\* The CA named by the options is initialized: its certificate and its
\* private key can be read and the certificate may sign.
CAInitialized(d, o) ==
    /\ o.CA # EmptyName
    /\ GetCertificate(d, formatDepotName(o.CA), FALSE).err = NoErr
    /\ GetCertificate(d, formatDepotName(o.CA), FALSE).crt.IsCA
    /\ GetPrivateKey(d, formatDepotName(o.CA), FALSE).err = NoErr

NothingStored(d, name) == \A suffix \in Suffixes : ~Check(d, [name |-> name, suffix |-> suffix], FALSE)

\* C10: for every identity name N, given an initialized CA named by opts.CA,
\* options with CommonName = Host = N and nothing stored for N,
\* CreateCertificate succeeds and afterwards Get(N, Certificate),
\* Get(N, PrivateKey) and Get(N, CSR) all succeed, and the stored certificate
\* is the one signed by the CA named in the options.
C10_CreateCertificate ==
    LET o == last.opts
        N == o.CommonName
    IN (/\ last.op = "CreateCertificate"
        /\ last.f = 0
        /\ N # EmptyName
        /\ o.Host = N
        /\ ~certRequestedInMemory(o)
        /\ ~signedInMemory(o)
        /\ CAInitialized(pre, o)
        /\ NothingStored(pre, N))
       => (/\ last.err = NoErr
           /\ Get(depot, CrtTag(N), FALSE).err = NoErr
           /\ Get(depot, PrivKeyTag(N), FALSE).err = NoErr
           /\ Get(depot, CsrTag(N), FALSE).err = NoErr
           /\ GetCertificate(depot, N, FALSE).crt.issuer = o.CA
           /\ GetCertificate(depot, N, FALSE).crt.signedBy
                  = GetPrivateKey(pre, formatDepotName(o.CA), FALSE).key.id)

\* ----------------------------------------------------- claims: expiration

\* The certificate stored for an identity, as GetCertificate reads it.
StoredCrt(d, name) == GetCertificate(d, name, FALSE)

ExpiresWithin(d, name, t, after) ==
    /\ StoredCrt(d, name).err = NoErr
    /\ StoredCrt(d, name).crt.NotAfter < t + after

\* The last call was CreateCertificateOnExpiration, without a storage failure,
\* for the host the options name, whose CA is initialized.
RotationCalled ==
    /\ last.op = "CreateCertificateOnExpiration"
    /\ ~last.failed
    /\ last.opts.CommonName # EmptyName
    /\ last.opts.Host = last.opts.CommonName
    /\ CAInitialized(pre, last.opts)

\* C11: CreateCertificateOnExpiration, called for an identity whose stored
\* certificate expires within `after`, returns created = true with no error,
\* and the certificate then stored for the identity is a newly signed one
\* whose expiration is computed from the time of this call, whether the
\* options are fresh or the value that created the old certificate.
C11_RotatesExpiring ==
    (RotationCalled /\ ExpiresWithin(pre, last.name, last.t, last.after))
    => (/\ last.flag
        /\ last.err = NoErr
        /\ StoredCrt(depot, last.name).err = NoErr
        /\ StoredCrt(depot, last.name).crt # StoredCrt(pre, last.name).crt
        /\ StoredCrt(depot, last.name).crt.NotAfter = last.t + last.opts.Expires)

\* The options are the ones CreateCertificate stored the identity's
\* certificate with: they hold the request, the key and the certificate, and
\* the certificate is the one stored under the host's storage name.
OptionsThatCreated(d, o) ==
    /\ certRequestedInMemory(o)
    /\ signedInMemory(o)
    /\ o.Host = o.CommonName
    /\ StoredCrt(d, formatDepotName(o.Host)).err = NoErr
    /\ StoredCrt(d, formatDepotName(o.Host)).crt = o.crt

\* C12: CreateCertificateOnExpiration, called with the options that
\* CreateCertificate used to store an identity's certificate, when that
\* certificate expires later than now + after, returns created = false with
\* no error and leaves the storage unchanged.
C12_KeepsValid ==
    (/\ last.op = "CreateCertificateOnExpiration"
     /\ ~last.failed
     /\ OptionsThatCreated(pre, last.opts)
     /\ last.opts.crt.NotAfter > last.t + last.after)
    => (~last.flag /\ last.err = NoErr /\ depot = pre)

\* The certificates a depot holds, each with the place it is stored at.
CertsOf(d) ==
    IF d.backend = "mongo"
    THEN { <<doc.id, doc.cert>> : doc \in {x \in d.docs : x.cert # Absent /\ x.cert # Empty} }
    ELSE { <<file.name, file.data>> : file \in {x \in d.files : x.suffix = ".crt"} }

\* C13: CreateCertificateOnExpiration returns created = true if and only if
\* this call created a new certificate and stored it in the depot; whenever
\* it stores no new certificate, an error included, it returns created = false.
C13_CreatedIffStored ==
    last.op = "CreateCertificateOnExpiration"
    => (last.flag <=> CertsOf(depot) \ CertsOf(pre) # {})

\* C14: DeleteOnExpiration returns true if and only if this call deleted the
\* certificate of the name; whenever it returns false, with or without an
\* error, the certificate stored before the call is still stored.
C14_DeletedIffGone ==
    (last.op = "DeleteOnExpiration" /\ StoredCrt(pre, last.name).err = NoErr)
    => (last.flag <=> StoredCrt(depot, last.name).err # NoErr)

\* What SignInMemory signs from: a request, cached or stored under the host
\* name, the certificate of the named CA with IsCA, and the CA's private key.
CanSign(d, o) ==
    /\ o.Host # EmptyName
    /\ o.CA # EmptyName
    /\ \/ certRequestedInMemory(o)
       \/ GetCertificateSigningRequest(d, formatDepotName(o.Host), FALSE).err = NoErr
    /\ StoredCrt(d, formatDepotName(o.CA)).err = NoErr
    /\ StoredCrt(d, formatDepotName(o.CA)).crt.IsCA
    /\ Check(d, PrivKeyTag(formatDepotName(o.CA)), FALSE)

\* C15, as stated: SignInMemory returns and caches a certificate only when a
\* request exists, the named CA's certificate is stored with IsCA and the
\* CA's key is stored; in every other case it returns an error, caches no
\* certificate and writes nothing.
C15_AsStated ==
    last.op = "SignInMemory"
    => (/\ last.err = NoErr => CanSign(pre, last.opts)
        /\ ~CanSign(pre, last.opts)
           => (last.err # NoErr /\ last.out.crt = None /\ depot = pre))

\* C15, amended: SignInMemory never writes to the depot. With a certificate
\* cached in the options it returns it, with no error and whatever the
\* options and the depot hold. With none cached it signs only when a request
\* exists, the named CA's certificate is stored with IsCA and the CA's key is
\* stored, and the certificate it caches is issued by that CA; in every other
\* case it returns an error and caches nothing.
C15_SignsOnlyFromCA ==
    last.op = "SignInMemory"
    => (/\ depot = pre
        /\ signedInMemory(last.opts) => (last.err = NoErr /\ last.out = last.opts)
        /\ ~signedInMemory(last.opts)
           => (/\ last.err = NoErr
                  => (/\ CanSign(pre, last.opts)
                      /\ last.out.crt # None
                      /\ last.out.crt.issuer = StoredCrt(pre, formatDepotName(last.opts.CA)).crt.cn
                      /\ last.out.crt.NotAfter = last.t + last.opts.Expires)
               /\ ~CanSign(pre, last.opts) => last.err # NoErr
               /\ last.err # NoErr => last.out = last.opts))

\* SignInMemory refused to sign with the certificate of a host.
C15_Witness ==
    /\ last.op = "SignInMemory"
    /\ ~signedInMemory(last.opts)
    /\ last.opts.CA = <<"a", "_">>
    /\ StoredCrt(pre, <<"a", "_">>).err = NoErr
    /\ Check(pre, PrivKeyTag(<<"a", "_">>), FALSE)
    /\ last.err = "not allowed to sign certificates"
    /\ last.out.crt = None

\* ------------------------------------------ claims: Save, Find, Generate

\* The bytes a backend holds at a tag: the field of the record on MongoDB,
\* the file in the directory.
Bytes(d, tag) ==
    IF d.backend = "mongo"
    THEN DocOf(d.docs, getNameAndKey(tag).name)[getNameAndKey(tag).key]
    ELSE FileOf(d.files, tag).data

FindNeedsStored(d, name) ==
    /\ Check(d, CrtTag(DepotOptions.CA), FALSE)
    /\ Check(d, CrtTag(name), FALSE)
    /\ Check(d, PrivKeyTag(name), FALSE)

\* C16: Find(identity) succeeds exactly when the default CA's certificate,
\* the identity's certificate and the identity's private key are all stored,
\* and then returns the stored bytes of the three with the identity as server
\* name; if one of them is missing it returns an error and no credentials;
\* Find never modifies storage.
C16_FindReadsStored ==
    last.op = "Find"
    => (/\ depot = pre
        /\ last.err # NoErr => last.out = NoCreds
        /\ last.failed => last.err # NoErr
        /\ ~last.failed => (last.err = NoErr <=> FindNeedsStored(pre, last.name))
        /\ last.err = NoErr
           => last.out = [CACert |-> Bytes(pre, CrtTag(DepotOptions.CA)),
                          Cert |-> Bytes(pre, CrtTag(last.name)),
                          Key |-> Bytes(pre, PrivKeyTag(last.name)),
                          ServerName |-> last.name])

\* Find returned the credentials stored for "a_".
C16_Witness ==
    /\ last.op = "Find"
    /\ last.name = <<"a", "_">>
    /\ last.err = NoErr
    /\ last.out.Key = Bytes(pre, PrivKeyTag(<<"a", "_">>))
    /\ last.out.Key # last.out.Cert

\* C17: Generate and GenerateWithOptions produce credentials in memory only:
\* whether they succeed or fail the stored state is unchanged, so after a
\* successful Generate(name) for a name with nothing stored, Get(name, CSR)
\* and Get(name, Certificate) still fail; on success the returned server name
\* is the name.
C17_GenerateInMemory ==
    last.op \in {"Generate", "GenerateWithOptions"}
    => (/\ depot = pre
        /\ last.err = NoErr => (last.out # NoCreds /\ last.out.ServerName = last.name)
        /\ (last.op = "Generate" /\ last.err = NoErr /\ NothingStored(pre, last.name))
           => (GetFails(depot, CsrTag(last.name)) /\ GetFails(depot, CrtTag(last.name))))

\* Generate made credentials for a name with nothing stored.
C17_Witness ==
    /\ last.op = "Generate"
    /\ last.err = NoErr
    /\ last.name = <<"a", "@">>
    /\ NothingStored(pre, last.name)
    /\ last.out.Cert.c.cn = last.name
    /\ GetFails(depot, CrtTag(last.name))

NoResolvableName(o) == o.CommonName = EmptyName /\ Len(o.Domain) = 0

\* C18, as stated: Generate with an empty identity, and GenerateWithOptions
\* with options that have no resolvable common name or an empty Host, return
\* an error and no credentials, on both backends.
C18_AsStated ==
    (\/ last.op = "Generate" /\ last.name = EmptyName
     \/ last.op = "GenerateWithOptions"
        /\ (NoResolvableName(last.opts) \/ last.opts.Host = EmptyName))
    => (last.err # NoErr /\ last.out = NoCreds)

\* C18, amended: Generate with an empty identity always fails; so does
\* GenerateWithOptions with options that have no resolvable common name and
\* no cached request, or an empty Host and no cached certificate. Options
\* that hold a cached request and certificate are not validated: the call
\* returns credentials made of what is cached.
C18_InvalidOptionsFail ==
    /\ (\/ last.op = "Generate" /\ last.name = EmptyName
        \/ last.op = "GenerateWithOptions"
           /\ \/ NoResolvableName(last.opts) /\ ~certRequestedInMemory(last.opts)
              \/ last.opts.Host = EmptyName /\ ~signedInMemory(last.opts))
       => (last.err # NoErr /\ last.out = NoCreds)
    /\ (/\ last.op = "GenerateWithOptions"
        /\ ~last.failed
        /\ certRequestedInMemory(last.opts)
        /\ signedInMemory(last.opts)
        /\ Check(pre, CrtTag(DepotOptions.CA), FALSE))
       => (/\ last.err = NoErr
           /\ last.out.Cert = ExportCertificate(last.opts.crt)
           /\ last.out.Key = ExportPrivate(last.opts.key))

\* GenerateWithOptions refused options that name a subject and no host.
C18_Witness ==
    /\ last.op = "GenerateWithOptions"
    /\ last.opts.CommonName = rootName
    /\ last.opts.Host = EmptyName
    /\ ~signedInMemory(last.opts)
    /\ Check(pre, CrtTag(DepotOptions.CA), FALSE)
    /\ last.err = "signing certificate request"
    /\ last.out = NoCreds

SaveSucceeded == last.op = "Save" /\ last.err = NoErr

SavedTags(name) == {CsrTag(name), PrivKeyTag(name), CrtTag(name)}

AllTags == [name : NameSet \cup {rootName}, suffix : Suffixes]

FindAfterSave == Find(depot, last.name, 0)

PutTTLRecord == formatDepotName(last.name)

PutTTLRefused ==
    \/ last.failed
    \/ ~HasDoc(pre.docs, PutTTLRecord)
    \/ DocOf(pre.docs, PutTTLRecord)[userTTLKey] = {last.arg}

\* C20: PutTTL(identity, expiration) fails, changing nothing and creating no
\* record, when the identity has no record or when the update changes
\* nothing (the stored TTL already equals the expiration); otherwise it
\* succeeds, the record's TTL is the expiration, and the record's artifact
\* fields and every other record are unchanged. The identity's record is the
\* one under its name with spaces replaced by underscores.
C20_PutTTL ==
    last.op = "PutTTL"
    => IF PutTTLRefused
       THEN /\ last.err # NoErr
            /\ depot = pre
       ELSE /\ last.err = NoErr
            /\ HasDoc(depot.docs, PutTTLRecord)
            /\ DocOf(depot.docs, PutTTLRecord)[userTTLKey] = {last.arg}
            /\ [DocOf(depot.docs, PutTTLRecord)
                  EXCEPT ![userTTLKey] = DocOf(pre.docs, PutTTLRecord)[userTTLKey]]
               = DocOf(pre.docs, PutTTLRecord)
            /\ { d \in depot.docs : d.id # PutTTLRecord }
               = { d \in pre.docs : d.id # PutTTLRecord }
            /\ depot.backend = pre.backend

\* PutTTL moved the expiration of a record that holds a certificate.
C20_Witness ==
    /\ last.op = "PutTTL"
    /\ last.err = NoErr
    /\ last.name = <<"a", " ">>
    /\ Check(pre, CrtTag(last.name), FALSE)
    /\ DocOf(pre.docs, PutTTLRecord)[userTTLKey] # {last.arg}
    /\ DocOf(depot.docs, PutTTLRecord)[userTTLKey] = {last.arg}
    /\ Read(depot, CrtTag(last.name)) = Read(pre, CrtTag(last.name))

\* ---------------------------------------------- claims: expiration queries

ExpiredAt(d, cutoff) == d.ttl # {} /\ \E e \in d.ttl : e <= cutoff

C22_DeleteExpiresBefore ==
    last.op = "DeleteExpiresBefore"
    => (/\ last.failed => (last.err # NoErr /\ depot = pre)
        /\ ~last.failed
           => (/\ last.err = NoErr
               /\ \A d \in pre.docs :
                     IF Decode(d) \in mongoFindExpiresBefore(pre.docs, last.arg, FALSE).users
                     THEN ~HasDoc(depot.docs, d.id)
                     ELSE d \in depot.docs
               /\ depot.docs \subseteq pre.docs
               /\ mongoFindExpiresBefore(depot.docs, last.arg, FALSE).users = {}))

\* DeleteExpiresBefore removed an expired record and kept one that expires
\* later and one without a TTL.
C22_Witness ==
    /\ last.op = "DeleteExpiresBefore"
    /\ last.err = NoErr
    /\ \E d \in pre.docs : d.ttl = {last.arg} /\ ~HasDoc(depot.docs, d.id)
    /\ \E d \in depot.docs : d.ttl = {}
    /\ \E d \in depot.docs : d.ttl = {last.arg + 1}

\* ------------------------------------------------- claims: TTL of a record

\* C23: on the database backend, after every successful Init,
\* PutCertFromMemory or Save for an identity, the TTL of the identity's
\* record equals the NotAfter of the certificate stored for it.
C23_TTLFollowsCertificate ==
    (/\ IsMongo
     /\ last.op \in {"Init", "PutCertFromMemory", "Save"}
     /\ last.err = NoErr)
    => (/\ HasDoc(depot.docs, formatDepotName(last.name))
        /\ StoredCrt(depot, last.name).err = NoErr
        /\ DocOf(depot.docs, formatDepotName(last.name)).ttl
              = {StoredCrt(depot, last.name).crt.NotAfter})

\* PutCertFromMemory stored a certificate in a record that had no TTL.
C23_Witness ==
    /\ IsMongo
    /\ last.op = "PutCertFromMemory"
    /\ last.err = NoErr
    /\ \/ ~HasDoc(pre.docs, formatDepotName(last.name))
       \/ DocOf(pre.docs, formatDepotName(last.name)).ttl = {}
    /\ DocOf(depot.docs, formatDepotName(last.name)).ttl = {last.opts.crt.NotAfter}

\* ------------------------------------------------ claims: concurrent Init

BothReturned(err1, err2) ==
    /\ DOMAIN calls = Callers
    /\ calls[1].pc = "returned" /\ calls[1].err = err1
    /\ calls[2].pc = "returned" /\ calls[2].err = err2

CARecord == DocOf(depot.docs, formatDepotName(rootName))

\* C24: on the database backend two concurrent Init calls for the same CA
\* name can both pass the existence check and both return success, the later
\* writes overwriting fields written by the other call. Whenever both have
\* returned success, each field of the CA's record is what one of the two
\* calls wrote, and the two certificates expire at different times (a
\* call whose TTL update changes nothing returns an error); a call that
\* returned "already exists" wrote nothing.
C24_ConcurrentInit ==
    /\ DOMAIN calls = Callers /\ BothReturned(NoErr, NoErr)
       => (/\ HasDoc(depot.docs, formatDepotName(rootName))
           /\ CARecord.cert \in { ExportCertificate(calls[p].crt) : p \in Callers }
           /\ CARecord.key \in { ExportPrivate(calls[p].key) : p \in Callers }
           /\ CARecord.ttl \in { {calls[p].crt.NotAfter} : p \in Callers }
           /\ calls[1].crt.NotAfter # calls[2].crt.NotAfter)
    /\ DOMAIN calls = Callers
       => \A p \in Callers :
             calls[p].err = "CA with specified name already exists"
             => (calls[p].crt = None
                 /\ \E q \in Callers : q # p /\ calls[q].crt # None)

\* Both calls returned success, and the record holds the certificate of one
\* call and the private key of the other.
C24_Witness ==
    /\ BothReturned(NoErr, NoErr)
    /\ CARecord.cert = ExportCertificate(calls[1].crt)
    /\ CARecord.key = ExportPrivate(calls[2].key)
    /\ calls[1].key # calls[2].key

\* ------------------------------------- claims: errors of the issuing calls

ValidationErrors ==
    { "must provide name of host", "must provide name of CA",
      "must provide a common name or domain",
      "parsing and validating IPs", "parsing and validating URIs" }

ConflictErrors ==
    { "certificate request or private key already exists", "certificate already exists" }

\* C25: a validation error (a missing required field such as Host or CA) or
\* a conflict error (an artifact already exists where creation was
\* requested) has no partial effect: whenever CreateCertificate returns such
\* an error, the depot holds exactly what it held before the call.
C25_NoPartialEffect ==
    (/\ last.op = "CreateCertificate"
     /\ last.f = 0
     /\ last.err \in ValidationErrors \cup ConflictErrors)
    => depot = pre

RequestExists(d, name) == Check(d, CsrTag(name), FALSE) \/ Check(d, PrivKeyTag(name), FALSE)

\* C26: PutCertRequestFromMemory fails when no request and key are cached in
\* the options, and fails when a request or a private key already exists at
\* the resolved formatted name; in both cases nothing is written. On success
\* the request and the key are both stored under the same formatted name.
C26_PutCertRequestFromMemory ==
    (last.op = "PutCertRequestFromMemory" /\ ~last.failed)
    => (/\ ~certRequestedInMemory(last.opts) => (last.err # NoErr /\ depot = pre)
        /\ (certRequestedInMemory(last.opts) /\ RequestExists(pre, last.name))
           => (last.err # NoErr /\ depot = pre)
        /\ last.err = NoErr
           => (/\ GetReturns(depot, CsrTag(last.name),
                             ExportCertificateSigningRequest(last.opts.csr))
               /\ GetReturns(depot, PrivKeyTag(last.name), ExportPrivate(last.opts.key)))
        /\ last.err # NoErr => depot = pre
        /\ last.out = last.opts)

\* PutCertRequestFromMemory stored the request and the key made in memory
\* for "a@" under "a_".
C26_Witness ==
    /\ last.op = "PutCertRequestFromMemory"
    /\ last.err = NoErr
    /\ last.opts.CommonName = <<"a", "@">>
    /\ last.name = <<"a", "_">>
    /\ ~RequestExists(pre, last.name)
    /\ Check(depot, CsrTag(last.name), FALSE)
    /\ Check(depot, PrivKeyTag(last.name), FALSE)

HostName(o) == formatDepotName(o.Host)

\* C27: PutCertFromMemory fails when no signed certificate is cached in the
\* options, and fails when a certificate already exists at the host's
\* resolved name; in both cases the depot is unchanged and the certificate
\* stored before stays retrievable. On success the cached certificate is
\* stored under the host name with spaces replaced by underscores.
C27_PutCertFromMemory ==
    (last.op = "PutCertFromMemory" /\ ~last.failed)
    => (/\ ~signedInMemory(last.opts) => (last.err # NoErr /\ depot = pre)
        /\ (signedInMemory(last.opts) /\ Check(pre, CrtTag(HostName(last.opts)), FALSE))
           => (/\ last.err # NoErr
               /\ depot = pre
               /\ Read(depot, CrtTag(HostName(last.opts))) = Read(pre, CrtTag(HostName(last.opts)))
               /\ ~Read(depot, CrtTag(HostName(last.opts))).failed)
        /\ last.err = NoErr
           => GetReturns(depot, CrtTag(HostName(last.opts)), ExportCertificate(last.opts.crt)))

\* PutCertFromMemory stored the cached certificate under "a_" for the host
\* "a ".
C27_Witness ==
    /\ last.op = "PutCertFromMemory"
    /\ last.err = NoErr
    /\ last.opts.Host = <<"a", " ">>
    /\ ~Check(pre, CrtTag(<<"a", "_">>), FALSE)
    /\ GetReturns(depot, CrtTag(<<"a", "_">>), ExportCertificate(last.opts.crt))

\* ----------------------------------------- claims: retrying CreateCertificate

\* The errors CreateCertificate returns from SignInMemory.
SigningErrors ==
    { "must provide name of host", "must provide name of CA",
      "getting CA certificate", "getting CA key" }

\* The options with the cause fixed: the missing Host or CA filled in.
FixedOptions(o) ==
    [o EXCEPT !.Host = IF o.Host = EmptyName THEN o.CommonName ELSE o.Host,
              !.CA = IF o.CA = EmptyName THEN rootName ELSE o.CA]

\* The depot with the cause fixed: the missing CA initialized.
FixedDepot(d, o, t, serial) ==
    IF CAInitialized(d, o) THEN d ELSE Init(d, CAOptions(o.CA), t, serial, 0).d

\* The retry after the last call, with the options value the caller passed to
\* the failed call (same = TRUE, it now holds the request made in memory) or
\* with a fresh one.
Retry(same) ==
    LET used == CreateCertificate(pre, last.opts, last.t, nops, 0).o
        o == FixedOptions(IF same THEN used ELSE last.opts)
    IN CreateCertificate(FixedDepot(depot, o, now, nops + 1), o, now, nops + 2, 0)

\* The same call on the depot as it was before the failed call, with the cause
\* fixed first.
FirstTry ==
    LET o == FixedOptions(last.opts)
    IN CreateCertificate(FixedDepot(pre, o, now, nops + 1), o, now, nops + 2, 0)

\* C28: after CreateCertificate has failed at the signing step, calling it
\* again once the cause is fixed succeeds, with the same options value and with
\* a fresh one, and without any cleanup of the depot. Only failures whose cause
\* the fix removes are considered: the call would have succeeded had the cause
\* been fixed before the first attempt.
C28_RetrySucceeds ==
    (/\ last.op = "CreateCertificate"
     /\ last.f = 0
     /\ last.err \in SigningErrors
     /\ FirstTry.err = NoErr)
    => (Retry(TRUE).err = NoErr /\ Retry(FALSE).err = NoErr)

\* ------------------------------------------- claims: Save over what is stored

\* The credentials are ones Save accepts: Save of them into an empty MongoDB
\* depot succeeds.
SaveAccepts(name, creds) == Save(NewDepot("mongo"), name, creds, 0).err = NoErr

\* The same Save called once more, right after the last call.
SaveAgain == Save(depot, last.name, last.arg, 0)

\* C29: on the MongoDB depot Save succeeds regardless of what is stored for
\* the name; called a second time with the same credentials it succeeds again
\* and leaves the depot as the first call left it.
C29_SaveTwice ==
    (/\ last.op = "Save"
     /\ ~last.failed
     /\ IsMongo
     /\ SaveAccepts(last.name, last.arg))
    => (/\ last.err = NoErr
        /\ SaveAgain.err = NoErr
        /\ SaveAgain.d = depot)

\* ------------------------------------------- claims: the bundle of Generate

\* The CA certificate of the bundle is the certificate of the key that signed
\* the leaf certificate, and carries the name the leaf names as its issuer.
SignedByBundleCA(creds) ==
    /\ creds.CACert.t = "crt"
    /\ creds.Cert.t = "crt"
    /\ creds.CACert.c.IsCA
    /\ creds.CACert.c.pub = creds.Cert.c.signedBy
    /\ creds.CACert.c.cn = creds.Cert.c.issuer

\* C30: the credentials a successful Generate or GenerateWithOptions returns
\* are consistent: the CA certificate in the bundle is the certificate of the
\* CA that signed the leaf certificate, also when the options of the call name
\* a CA other than the depot's default CA.
C30_BundleConsistent ==
    (last.op \in {"Generate", "GenerateWithOptions"} /\ ~last.failed /\ last.err = NoErr)
    => SignedByBundleCA(last.out)

\* ---------------------------------- claims: the record after concurrent Init

\* Both calls have returned, whatever they returned.
BothDone == DOMAIN calls = Callers /\ \A p \in Callers : calls[p].pc = "returned"

\* C31: after any interleaving of two Init calls for the same CA name on the
\* MongoDB depot, a certificate and a private key stored under that name were
\* written by the same call (the stored key is the key of the stored
\* certificate), and the stored CRL and TTL belong to that call.
C31_OneCallWroteRecord ==
    (/\ BothDone
     /\ HasDoc(depot.docs, formatDepotName(rootName))
     /\ CARecord.cert.t = "crt"
     /\ CARecord.key.t = "key")
    => (/\ CARecord.key.k.id = CARecord.cert.c.pub
        /\ CARecord.cert_revoc_list.t = "crl"
           => CARecord.cert_revoc_list.l.signedBy = CARecord.cert.c.pub
        /\ CARecord.ttl \subseteq {CARecord.cert.c.NotAfter})

\* ------------------------------------ claims: the cache of an options value

\* What an options value has cached.
CacheState(o) ==
    IF o.csr = None /\ o.key = None /\ o.crt = None THEN "Empty"
    ELSE IF o.csr # None /\ o.key # None /\ o.crt = None THEN "RequestComputed"
    ELSE IF o.csr # None /\ o.key # None /\ o.crt # None THEN "Signed"
    ELSE IF o.csr = None /\ o.key = None /\ o.crt # None THEN "CertificateOnly"
    ELSE "other"

CacheCalls ==
    {"CertRequestInMemory", "SignInMemory", "Reset", "PutCertRequestFromMemory",
     "PutCertFromMemory"}

\* C32 as stated: the cache is always Empty, RequestComputed or Signed and
\* moves only Empty -> RequestComputed (CertRequestInMemory), RequestComputed
\* -> Signed (SignInMemory) or back to Empty (Reset); a certificate is never
\* cached while no request and key are cached.
C32_ThreeStates ==
    /\ CacheState(opts) \in {"Empty", "RequestComputed", "Signed"}
    /\ last.op \in CacheCalls
       => \/ CacheState(last.out) = CacheState(last.opts)
          \/ /\ last.op = "CertRequestInMemory"
             /\ CacheState(last.opts) = "Empty" /\ CacheState(last.out) = "RequestComputed"
          \/ /\ last.op = "SignInMemory"
             /\ CacheState(last.opts) = "RequestComputed" /\ CacheState(last.out) = "Signed"
          \/ last.op = "Reset" /\ CacheState(last.out) = "Empty"

\* C32, amended: the request and the key are cached together, so the cache
\* is Empty, RequestComputed, Signed or CertificateOnly (a certificate and
\* no request, after SignInMemory signed the request stored in the depot).
\* A successful CertRequestInMemory adds the request and the key when none are
\* cached, a successful SignInMemory adds the certificate when none is cached,
\* Reset empties the cache; a failed call, a call that finds its result
\* cached, and PutCertRequestFromMemory and PutCertFromMemory leave the cache
\* as it is.
C32_CacheStates ==
    /\ CacheState(opts) \in {"Empty", "RequestComputed", "Signed", "CertificateOnly"}
    /\ last.op \in CacheCalls
       => LET from == CacheState(last.opts)
              to == CacheState(last.out)
          IN /\ last.op = "CertRequestInMemory"
                => to = (IF last.err # NoErr THEN from
                         ELSE IF from = "Empty" THEN "RequestComputed"
                         ELSE IF from = "CertificateOnly" THEN "Signed"
                         ELSE from)
             /\ last.op = "SignInMemory"
                => to = (IF last.err # NoErr THEN from
                         ELSE IF from = "RequestComputed" THEN "Signed"
                         ELSE IF from = "Empty" THEN "CertificateOnly"
                         ELSE from)
             /\ last.op = "Reset" => to = "Empty"
             /\ last.op \in {"PutCertRequestFromMemory", "PutCertFromMemory"}
                => last.out = last.opts

\* SignInMemory signed the request stored in the depot for an options value
\* that had nothing cached: the certificate is cached without a request.
C32_Witness ==
    /\ last.op = "SignInMemory"
    /\ last.err = NoErr
    /\ CacheState(last.opts) = "Empty"
    /\ CacheState(last.out) = "CertificateOnly"
    /\ opts = last.out

C34_SignInMemoryCached ==
    (last.op = "SignInMemory" /\ signedInMemory(last.opts))
    => (/\ last.err = NoErr
        /\ last.out = last.opts
        /\ depot = pre)

\* SignInMemory returned the cached certificate for a value whose Host is
\* empty, over a depot where the CA certificate cannot be read.
C34_Witness ==
    /\ last.op = "SignInMemory"
    /\ signedInMemory(last.opts)
    /\ last.opts.Host = EmptyName
    /\ last.f = 2
    /\ last.err = NoErr
    /\ last.out.crt = last.opts.crt

\* ------------------------------------------------------------ claims: Reset

\* The exported fields of an options value.
Fields(o) == [o EXCEPT !.csr = None, !.key = None, !.crt = None]

\* What Reset leaves: nothing cached, the fields and the depot as they were.
ResetClears ==
    last.op = "Reset"
    => (/\ CacheState(last.out) = "Empty"
        /\ Fields(last.out) = Fields(last.opts)
        /\ depot = pre)

\* With nothing cached the two Put calls fail and write nothing.
EmptyCacheRefused ==
    /\ (last.op = "PutCertRequestFromMemory" /\ ~certRequestedInMemory(last.opts))
       => (last.err # NoErr /\ depot = pre /\ last.out = last.opts)
    /\ (last.op = "PutCertFromMemory" /\ ~signedInMemory(last.opts))
       => (last.err # NoErr /\ depot = pre /\ last.out = last.opts)

\* The call that follows Reset (the fields may have been assigned in
\* between): a Put call fails and leaves the depot, CertRequestInMemory makes a
\* key the value did not hold before and a request for the name the fields give,
\* SignInMemory makes a certificate at the time of the call.
AfterReset ==
    (last.op = "Reset" /\ last' # last)
    => (/\ last'.opts = opts
        /\ CacheState(opts) = "Empty"
        /\ last'.op \in {"PutCertRequestFromMemory", "PutCertFromMemory"}
           => (last'.err # NoErr /\ depot' = depot)
        /\ (last'.op = "CertRequestInMemory" /\ last'.err = NoErr)
           => (/\ last'.out.key # None
               /\ last'.out.key # last.opts.key
               /\ last'.out.csr.cn = getCertificateRequestName(opts).name
               /\ last'.out.csr.pub = last'.out.key.id)
        /\ (last'.op = "SignInMemory" /\ last'.err = NoErr)
           => (/\ last'.out.crt # None
               /\ last'.out.crt.NotAfter = now + opts.Expires
               /\ last'.out.crt.issuer = opts.CA))

\* C35: Reset returns the options to the Empty state from any state and
\* changes nothing else: nothing is cached after it, so
\* PutCertRequestFromMemory and PutCertFromMemory fail until a new request or
\* signature is computed, the next CertRequestInMemory and SignInMemory compute
\* new artifacts, and the fields and the depot are untouched.
C35_Reset == [](ResetClears /\ EmptyCacheRefused) /\ [][AfterReset]_vars

\* Reset was called on a value holding a request, a key and a certificate,
\* and the value now holds none of them.
C35_Witness ==
    /\ last.op = "Reset"
    /\ CacheState(last.opts) = "Signed"
    /\ opts = last.out
    /\ CacheState(opts) = "Empty"
    /\ opts.Host = last.opts.Host

\* ----------------------------------------------- claims: DeleteOnExpiration

\* The certificate stored for the name expires within `after` of the call.
Expiring == StoredCrt(pre, last.name).crt.NotAfter < last.t + last.after

\* C36: DeleteOnExpiration(depot, name, after) returns (false, no error) and
\* changes nothing if no certificate is stored for the name or if the stored
\* certificate's NotAfter is not before now+after; if NotAfter is before
\* now+after it deletes the certificate, the private key and (only when the
\* certificate is not a CA) the request of the name, returns true, and leaves
\* the CRL of the name and all data of other names unchanged.
C36_DeleteOnExpiration ==
    (last.op = "DeleteOnExpiration" /\ ~last.failed)
    => (/\ ~Check(pre, CrtTag(last.name), FALSE)
           => (~last.flag /\ last.err = NoErr /\ depot = pre)
        /\ (Check(pre, CrtTag(last.name), FALSE) /\ ~Expiring)
           => (~last.flag /\ last.err = NoErr /\ depot = pre)
        /\ (Check(pre, CrtTag(last.name), FALSE) /\ Expiring)
           => (/\ last.flag
               /\ last.err = NoErr
               /\ ~Check(depot, CrtTag(last.name), FALSE)
               /\ ~Check(depot, PrivKeyTag(last.name), FALSE)
               /\ ~StoredCrt(pre, last.name).crt.IsCA
                  => ~Check(depot, CsrTag(last.name), FALSE)
               /\ StoredCrt(pre, last.name).crt.IsCA
                  => SameReads(pre, depot, CsrTag(last.name))
               /\ SameReads(pre, depot, CrlTag(last.name))
               /\ \A tag \in AllTags :
                     tag.name # last.name => SameReads(pre, depot, tag)))

\* ------------------------------------------- claims: one record per identity

\* The record a tag of the name is read from and written to.
RecordOf(name, suffix) == getNameAndKey([name |-> name, suffix |-> suffix]).name

\* C37: on the MongoDB depot there is one record per identity: for every
\* name, also one with spaces or with characters outside [a-zA-Z0-9._-], the
\* record key computed from the certificate, private key, request and CRL tag
\* of the name is the same, so a call for one kind of the name uses the record
\* the other kinds of the name use.
C37_OneRecordPerIdentity ==
    (/\ IsMongo
     /\ last.op \in {"Put", "Get", "Check", "CheckWithError", "Delete"}
     /\ last.tag.name # EmptyName)
    => \A suffix \in Suffixes :
          RecordOf(last.tag.name, suffix) = RecordOf(last.tag.name, last.tag.suffix)

\* --------------------------------------- claims: TTL and stored certificate

\* The users FindExpiresBefore selects for the latest cutoff of the model.
Selected == mongoFindExpiresBefore(depot.docs, MaxTime + 2, FALSE).users

\* C38: on the MongoDB depot, after any sequence of lifecycle operations
\* that ran without a storage failure, every record that carries a TTL also
\* holds a certificate, so FindExpiresBefore and DeleteExpiresBefore select
\* only identities that have a stored certificate.
C38_TTLOnlyWithCertificate ==
    (IsMongo /\ ~last.failed)
    => (/\ \A d \in depot.docs : d.ttl # {} => d.cert # Absent
        /\ \A u \in Selected : u.Cert # Empty)

\* ------------------------------------------ claims: Check and CheckWithError

\* The errors CheckWithError returns when the storage lookup fails.
LookupErrors == {"checking depot tag", "stat"}

\* C39: Check never returns an error: it answers false when the artifact
\* is absent and when the storage lookup fails. CheckWithError answers (b, no
\* error) with b the answer of Check whenever the lookup works, and (false,
\* error) when the lookup fails; Init, PutCertRequestFromMemory and
\* PutCertFromMemory abort without writing when CheckWithError returns an
\* error.
C39_CheckWithError ==
    /\ last.op = "Check"
       => (/\ last.err = NoErr
           /\ last.failed => ~last.out
           /\ ~last.failed => (last.out <=> ~GetFails(pre, last.arg)))
    /\ last.op = "CheckWithError"
       => (/\ ~last.failed => (last.err = NoErr /\ last.out = Check(pre, last.arg, FALSE))
           /\ last.failed => (~last.out /\ last.err \in LookupErrors))
    /\ (/\ last.op \in {"Init", "PutCertRequestFromMemory", "PutCertFromMemory"}
        /\ last.err \in LookupErrors)
       => (last.failed /\ depot = pre)

\* CheckWithError returned (false, error) for a certificate that is stored,
\* because the lookup failed.
C39_Witness ==
    /\ last.op = "CheckWithError"
    /\ last.failed
    /\ ~last.out
    /\ last.err \in LookupErrors
    /\ last.arg.suffix = ".crt"
    /\ Check(depot, last.arg, FALSE)

====
